---- MODULE Spec2Model ----
(***************************************************************************)
(* The lexical store of the study manager (DatabaseManager over one SQLite *)
(* connection) and the coverage engine built on it.  Tables are functions  *)
(* from row id to row; the two link tables, which have no key, are bags.   *)
(* Text values are sequences of characters, so that remove_surrogates and  *)
(* contains_kanji do to a value what the code does.                        *)
(***************************************************************************)
EXTENDS Integers, Sequences, FiniteSets, Bags, TLC

VARIABLES
    texts,                  \* texts(text_id, source, type, comprehension_percentage, studying)
    sentences,              \* sentences(sentence_id, text_id, content, unknown_dictionary_form_count)
    dictionary_forms,       \* dictionary_forms(dict_form_id, base_form, frequency, known, ranking)
    surface_forms,          \* surface_forms(surface_form_id, dict_form_id, surface_form, reading, pos, frequency, known, kanji_parsed)
    surface_form_sentences, \* bag of <<surface_form_id, sentence_id>>
    compound_forms,         \* compound_forms(compound_id, surface_form_id, compound_text, frequency, known)
    kanji_entries,          \* kanji_entries(kanji_id, compound_id, kanji_char, frequency, known)
    kanji_linkage,          \* bag of <<kanji_id, surface_form_id, sentence_id, card_id>>
    cards,                  \* cards(card_id, deck_id, media_id, anki_card_id, sentence_id, unobtainable, gated)
    decks,                  \* decks(deck_id, name)
    sources,                \* sources(source_id, folder_path)
    media,                  \* media(media_id, file_path)
    subtitles,              \* subtitles(sub_id, media_id, subtitle_file)
    sqlite_sequence,        \* AUTOINCREMENT: the largest row id each table has ever used
    durable,                \* the database as of the connection's last commit
    ret,                    \* the last call: its name, arguments and what it returned
    upserts,                \* history: add_surface_form calls made so far, per row key
    query                   \* the arguments the coverage engine is called with

vars == <<texts, sentences, dictionary_forms, surface_forms, surface_form_sentences,
          compound_forms, kanji_entries, kanji_linkage, cards, decks, sources, media,
          subtitles, sqlite_sequence, durable, ret, upserts, query>>

\* the tables as the connection sees them
store == <<texts, sentences, dictionary_forms, surface_forms, surface_form_sentences,
           compound_forms, kanji_entries, kanji_linkage, cards, decks, sources, media,
           subtitles, sqlite_sequence>>

-----------------------------------------------------------------------------
(* Bounds of the model *)

\* get_or_create_dictionary_form is not called on a lemma whose frequency reached this
MaxFrequency == 1
\* add_surface_form is called at most this many times
MaxUpserts == 3
\* add_sentence_if_not_exist inserts at most this many sentences
MaxSentences == 2
\* occurrences ingested where comprehension is computed
MaxLinks == 2
\* most tokens in a line handed to an ingestion handler
MaxTokens == 2
\* most cards imported
MaxCards == 1
\* longest candidate list handed to greedy_set_cover / filter_cards_by_coverage
MaxCandidates == 2
\* cards imported where the comprehension prediction runs
MaxWordsCards == 2
\* largest X handed to predict_comprehension_increase_for_X_cards
MaxPicks == 2
MaxSources == 2
MaxScans == 2
\* most sentence rows ever inserted where subtitle saves run
MaxSavedSentences == 5
\* highest compound frequency at which parse_pending_kanji is still called
MaxCompoundFrequency == 2
\* tokens a file stem of the model is put together from
MaxStemTokens == 3

-----------------------------------------------------------------------------
(* Values *)

\* Python's None / SQL NULL for a text value
None == <<"None">>

\* an optional integer (an id, a limit, a ranking) is a set: {} is None, {n} is n
NoInt == {}

\* characters: "k" is a CJK ideograph (U+4E00..U+9FFF), "a" a kana,
\* "S" a UTF-16 surrogate code point (U+D800..U+DFFF)
Surrogates == {"S"}
Kanji == {"k"}

NotSurrogate(c) == c \notin Surrogates

\* `x or ""`
OrEmpty(x) == IF x = None \/ x = <<>> THEN <<>> ELSE x

remove_surrogates(text) ==
    IF text = <<>> THEN text ELSE SelectSeq(text, NotSurrogate)

\* rationals num/den in lowest terms stand for the REAL comprehension_percentage
RECURSIVE Gcd(_, _)
Gcd(a, b) == IF b = 0 THEN a ELSE Gcd(b, a % b)

Ratio(n, d) == LET g == Gcd(n, d) IN [num |-> n \div g, den |-> d \div g]

EmptyTable == [x \in {} |-> x]

Insert(table, id, row) ==
    [x \in (DOMAIN table) \cup {id} |-> IF x = id THEN row ELSE table[x]]

\* what the store's own operations leave alone
frame == <<upserts, query>>

\* the current content of the connection's database
DB == [texts |-> texts, sentences |-> sentences,
       dictionary_forms |-> dictionary_forms, surface_forms |-> surface_forms,
       surface_form_sentences |-> surface_form_sentences,
       compound_forms |-> compound_forms, kanji_entries |-> kanji_entries,
       kanji_linkage |-> kanji_linkage, cards |-> cards,
       decks |-> decks, sources |-> sources, media |-> media, subtitles |-> subtitles,
       sqlite_sequence |-> sqlite_sequence]

\* the statements executed on the connection so far, committed or not
Execute(db) ==
    /\ texts' = db.texts
    /\ sentences' = db.sentences
    /\ dictionary_forms' = db.dictionary_forms
    /\ surface_forms' = db.surface_forms
    /\ surface_form_sentences' = db.surface_form_sentences
    /\ compound_forms' = db.compound_forms
    /\ kanji_entries' = db.kanji_entries
    /\ kanji_linkage' = db.kanji_linkage
    /\ cards' = db.cards
    /\ decks' = db.decks
    /\ sources' = db.sources
    /\ media' = db.media
    /\ subtitles' = db.subtitles
    /\ sqlite_sequence' = db.sqlite_sequence

\* self._conn.commit(): the statements' effects become the database
Commit(db) ==
    /\ Execute(db)
    /\ durable' = db


\* INSERT into a table with an INTEGER PRIMARY KEY AUTOINCREMENT
NextId(db, table) == db.sqlite_sequence[table] + 1

Min(S) == CHOOSE x \in S : \A y \in S : x <= y

-----------------------------------------------------------------------------
(* Schema: the database after _create_schema on a new file *)

InitStore ==
    /\ texts = EmptyTable
    /\ sentences = EmptyTable
    /\ dictionary_forms = EmptyTable
    /\ surface_forms = EmptyTable
    /\ surface_form_sentences = EmptyBag
    /\ compound_forms = EmptyTable
    /\ kanji_entries = EmptyTable
    /\ kanji_linkage = EmptyBag
    /\ cards = EmptyTable
    /\ decks = EmptyTable
    /\ sources = EmptyTable
    /\ media = EmptyTable
    /\ subtitles = EmptyTable
    /\ sqlite_sequence = [t \in {"texts", "sentences", "dictionary_forms", "surface_forms",
                                 "compound_forms", "kanji_entries", "cards", "decks",
                                 "sources", "media", "subtitles"} |-> 0]
    /\ durable = DB
    /\ ret = [op |-> "init"]
    /\ upserts = EmptyBag

Init ==
    /\ InitStore
    /\ query = [op |-> "none"]

-----------------------------------------------------------------------------
(* Texts and sentences *)

add_text_source(db, source_path, text_type) ==
    LET found == {t \in DOMAIN db.texts :
                    db.texts[t].source = source_path /\ db.texts[t].type = text_type}
        id == NextId(db, "texts")
    IN IF found # {}
       THEN [db |-> db, result |-> Min(found)]
       ELSE [db |-> [db EXCEPT
                       !.texts = Insert(@, id, [source |-> source_path, type |-> text_type,
                                                comprehension_percentage |-> Ratio(0, 1),
                                                studying |-> FALSE]),
                       !.sqlite_sequence["texts"] = id],
             result |-> id]

add_sentence_if_not_exist(db, text_id, sentence_str) ==
    LET found == {s \in DOMAIN db.sentences :
                    db.sentences[s].text_id = text_id /\ db.sentences[s].content = sentence_str}
        id == NextId(db, "sentences")
    IN IF found # {}
       THEN [db |-> db, result |-> Min(found)]
       ELSE [db |-> [db EXCEPT
                       !.sentences = Insert(@, id, [text_id |-> text_id, content |-> sentence_str,
                                                    unknown_dictionary_form_count |-> 0]),
                       !.sqlite_sequence["sentences"] = id],
             result |-> id]

AddTextSource(source_path, text_type) ==
    LET r == add_text_source(DB, source_path, text_type)
    IN /\ Commit(r.db)
       /\ ret' = [op |-> "add_text_source"]
       /\ UNCHANGED frame

AddSentenceIfNotExist(text_id, sentence_str) ==
    LET r == add_sentence_if_not_exist(DB, text_id, sentence_str)
    IN /\ text_id \in DOMAIN texts
       /\ Cardinality(DOMAIN r.db.sentences) <= MaxSentences
       /\ Commit(r.db)
       /\ ret' = [op |-> "add_sentence_if_not_exist"]
       /\ UNCHANGED frame

-----------------------------------------------------------------------------
(* Dictionary forms *)

get_or_create_dictionary_form(db, base_form_in, reading_in, pos_in) ==
    LET base_form == remove_surrogates(OrEmpty(base_form_in))
        reading == remove_surrogates(OrEmpty(reading_in))
        pos == remove_surrogates(OrEmpty(pos_in))
        found == {d \in DOMAIN db.dictionary_forms :
                    db.dictionary_forms[d].base_form = base_form}
        id == NextId(db, "dictionary_forms")
    IN IF found # {}
       THEN LET dict_form_id == Min(found)
            IN [db |-> [db EXCEPT !.dictionary_forms[dict_form_id].frequency = @ + 1],
                result |-> dict_form_id]
       ELSE [db |-> [db EXCEPT
                       !.dictionary_forms = Insert(@, id, [base_form |-> base_form,
                                                           reading |-> reading, pos |-> pos,
                                                           frequency |-> 1, known |-> FALSE,
                                                           ranking |-> NoInt]),
                       !.sqlite_sequence["dictionary_forms"] = id],
             result |-> id]

GetOrCreateDictionaryForm(base_form, reading, pos) ==
    LET r == get_or_create_dictionary_form(DB, base_form, reading, pos)
    IN /\ r.db.dictionary_forms[r.result].frequency <= MaxFrequency
       /\ Commit(r.db)
       /\ ret' = [op |-> "get_or_create_dictionary_form"]
       /\ UNCHANGED frame

-----------------------------------------------------------------------------
(* Surface forms and kanji *)

IsKanji(c) == c \in Kanji

contains_kanji(text) == \E i \in 1..Len(text) : IsKanji(text[i])

\* the loop over kanji_chars of _handle_compound_and_kanji; every statement is
\* committed as it goes, so a FOREIGN KEY failure keeps what was done before it
RECURSIVE HandleKanjiChars(_, _, _, _, _, _)
HandleKanjiChars(db, kanji_chars, compound_id, surface_form_id, sentence_id, card_id) ==
    IF kanji_chars = <<>> THEN [db |-> db, raised |-> FALSE]
    ELSE
      LET kchar == Head(kanji_chars)
          found == {k \in DOMAIN db.kanji_entries :
                      /\ db.kanji_entries[k].compound_id = compound_id
                      /\ db.kanji_entries[k].kanji_char = kchar}
          new_id == NextId(db, "kanji_entries")
          kanji_id == IF found # {} THEN Min(found) ELSE new_id
          db1 == IF found # {}
                 THEN [db EXCEPT !.kanji_entries[kanji_id].frequency = @ + 1]
                 ELSE [db EXCEPT
                         !.kanji_entries = Insert(@, new_id, [compound_id |-> compound_id,
                                                              kanji_char |-> kchar,
                                                              frequency |-> 1, known |-> FALSE]),
                         !.sqlite_sequence["kanji_entries"] = new_id]
          fk_ok == /\ sentence_id \in DOMAIN db1.sentences
                   /\ card_id \subseteq DOMAIN db1.cards
          db2 == [db1 EXCEPT !.kanji_linkage =
                     @ (+) SetToBag({<<kanji_id, surface_form_id, sentence_id, card_id>>})]
      IN IF ~fk_ok THEN [db |-> db1, raised |-> TRUE]
         ELSE HandleKanjiChars(db2, Tail(kanji_chars), compound_id, surface_form_id,
                               sentence_id, card_id)

handle_compound_and_kanji(db, surface_form_id, compound_text, sentence_id, card_id) ==
    LET kanji_chars == SelectSeq(compound_text, IsKanji)
        found == {c \in DOMAIN db.compound_forms :
                    /\ db.compound_forms[c].surface_form_id = surface_form_id
                    /\ db.compound_forms[c].compound_text = compound_text}
        new_id == NextId(db, "compound_forms")
        compound_id == IF found # {} THEN Min(found) ELSE new_id
        db1 == IF found # {}
               THEN [db EXCEPT !.compound_forms[compound_id].frequency = @ + 1]
               ELSE [db EXCEPT
                       !.compound_forms = Insert(@, new_id, [surface_form_id |-> surface_form_id,
                                                             compound_text |-> compound_text,
                                                             frequency |-> 1, known |-> FALSE]),
                       !.sqlite_sequence["compound_forms"] = new_id]
    IN IF kanji_chars = <<>> THEN [db |-> db, raised |-> FALSE]
       ELSE HandleKanjiChars(db1, kanji_chars, compound_id, surface_form_id,
                             sentence_id, card_id)

\* the lookup without its part-of-speech condition
MatchingSurfaceForms_AnyPos(db, dict_form_id, surface_form, reading, pos) ==
    {f \in DOMAIN db.surface_forms :
        /\ db.surface_forms[f].dict_form_id = dict_form_id
        /\ db.surface_forms[f].surface_form = surface_form
        /\ db.surface_forms[f].reading = reading}

\* WHERE dict_form_id = ? AND surface_form = ? AND reading = ? AND (pos = ? OR pos IS NULL)
MatchingSurfaceForms(db, dict_form_id, surface_form, reading, pos) ==
    {f \in DOMAIN db.surface_forms :
        /\ db.surface_forms[f].dict_form_id = dict_form_id
        /\ db.surface_forms[f].surface_form = surface_form
        /\ db.surface_forms[f].reading = reading
        /\ (db.surface_forms[f].pos = pos \/ db.surface_forms[f].pos = None)}

\* the row key add_surface_form looks a surface form up by
SurfaceFormKey(dict_form_id, surface_form_in, reading_in, pos_in) ==
    <<dict_form_id, remove_surrogates(OrEmpty(surface_form_in)),
      remove_surrogates(OrEmpty(reading_in)), remove_surrogates(OrEmpty(pos_in))>>

add_surface_form(db, dict_form_id, surface_form_in, reading_in, pos_in, sentence_id, card_id, parse_kanji) ==
    LET key == SurfaceFormKey(dict_form_id, surface_form_in, reading_in, pos_in)
        surface_form == key[2]
        reading == key[3]
        pos == key[4]
        found == MatchingSurfaceForms(db, dict_form_id, surface_form, reading, pos)
        new_id == NextId(db, "surface_forms")
        surface_form_id == IF found # {} THEN Min(found) ELSE new_id
        \* the UPDATE of the frequency, or the INSERT of the row, is committed
        \* before the link is inserted
        db1 == IF found # {}
               THEN [db EXCEPT !.surface_forms[surface_form_id].frequency = @ + 1]
               ELSE [db EXCEPT
                       !.surface_forms = Insert(@, new_id,
                            [dict_form_id |-> dict_form_id, surface_form |-> surface_form,
                             reading |-> reading, pos |-> pos, frequency |-> 1,
                             known |-> FALSE, kanji_parsed |-> FALSE]),
                       !.sqlite_sequence["surface_forms"] = new_id]
        db2 == [db1 EXCEPT !.surface_form_sentences =
                   @ (+) SetToBag({<<surface_form_id, sentence_id>>})]
        k == handle_compound_and_kanji(db2, surface_form_id, surface_form, sentence_id, card_id)
    IN IF found = {} /\ dict_form_id \notin DOMAIN db.dictionary_forms
       THEN \* FOREIGN KEY(dict_form_id): the INSERT raises IntegrityError
            [db |-> db, result |-> NoInt, raised |-> TRUE]
       ELSE IF sentence_id \notin DOMAIN db1.sentences
       THEN \* FOREIGN KEY(sentence_id): the INSERT of the link raises
            [db |-> db1, result |-> NoInt, raised |-> TRUE]
       ELSE IF parse_kanji /\ contains_kanji(surface_form)
       THEN IF k.raised
            THEN [db |-> k.db, result |-> NoInt, raised |-> TRUE]
            ELSE [db |-> [k.db EXCEPT !.surface_forms[surface_form_id].kanji_parsed = TRUE],
                  result |-> {surface_form_id}, raised |-> FALSE]
       ELSE [db |-> db2, result |-> {surface_form_id}, raised |-> FALSE]

AddSurfaceForm(dict_form_id, surface_form, reading, pos, sentence_id, card_id, parse_kanji) ==
    LET key == SurfaceFormKey(dict_form_id, surface_form, reading, pos)
        r == add_surface_form(DB, dict_form_id, surface_form, reading, pos,
                              sentence_id, card_id, parse_kanji)
    IN /\ dict_form_id \in DOMAIN dictionary_forms
       /\ BagCardinality(upserts) < MaxUpserts
       /\ Commit(r.db)
       /\ ret' = [op |-> "add_surface_form", result |-> r.result, raised |-> r.raised]
       /\ upserts' = upserts (+) SetToBag({key})
       /\ UNCHANGED query

-----------------------------------------------------------------------------
(* Known flags, unknown counts and text comprehension *)

\* the join with the condition sf.known = 0 added
JoinFormsSentences_UnknownSurface(db) ==
    {<<db.surface_forms[l[1]].dict_form_id, l[1], l[2]>> :
        l \in {m \in BagToSet(db.surface_form_sentences) :
                 /\ m[1] \in DOMAIN db.surface_forms
                 /\ db.surface_forms[m[1]].dict_form_id \in DOMAIN db.dictionary_forms
                 /\ ~db.surface_forms[m[1]].known}}

\* FROM dictionary_forms df JOIN surface_forms sf ON df.dict_form_id = sf.dict_form_id
\*      JOIN surface_form_sentences sfs ON sf.surface_form_id = sfs.surface_form_id:
\* the joined rows, as <<dict_form_id, surface_form_id, sentence_id>>
JoinFormsSentences(db) ==
    {<<db.surface_forms[l[1]].dict_form_id, l[1], l[2]>> :
        l \in {m \in BagToSet(db.surface_form_sentences) :
                 /\ m[1] \in DOMAIN db.surface_forms
                 /\ db.surface_forms[m[1]].dict_form_id \in DOMAIN db.dictionary_forms}}

set_dictionary_form_known(db, dict_form_id, known) ==
    IF dict_form_id \in DOMAIN db.dictionary_forms
    THEN [db EXCEPT !.dictionary_forms[dict_form_id].known = known]
    ELSE db

\* SELECT COUNT(*) in place of COUNT(DISTINCT df.dict_form_id): joined rows, not lemmas
UnknownCountOfSentence_Rows(db, sentence_id) ==
    LET rows == {j \in JoinFormsSentences(db) :
                    j[3] = sentence_id /\ ~db.dictionary_forms[j[1]].known}
        RECURSIVE Sum(_)
        Sum(R) == IF R = {} THEN 0
                  ELSE LET j == CHOOSE x \in R : TRUE
                       IN CopiesIn(<<j[2], j[3]>>, db.surface_form_sentences) + Sum(R \ {j})
    IN Sum(rows)

\* SELECT COUNT(DISTINCT df.dict_form_id) ... WHERE sfs.sentence_id = ? AND df.known = 0
UnknownCountOfSentence(db, sentence_id) ==
    Cardinality({j[1] : j \in {i \in JoinFormsSentences(db) :
                                  i[3] = sentence_id /\ ~db.dictionary_forms[i[1]].known}})

\* the recount that adds to the stored count
update_unknown_counts_Accumulate(db, dict_form_id) ==
    [db EXCEPT !.sentences =
        [s \in DOMAIN @ |->
            IF \E m \in BagToSet(db.surface_form_sentences) :
                  /\ m[2] = s /\ m[1] \in DOMAIN db.surface_forms
                  /\ db.surface_forms[m[1]].dict_form_id = dict_form_id
            THEN [@[s] EXCEPT !.unknown_dictionary_form_count =
                     @ + Cardinality({j[1] : j \in {i \in JoinFormsSentences(db) :
                                  i[3] = s /\ ~db.dictionary_forms[i[1]].known}})]
            ELSE @[s]]]

\* SELECT DISTINCT sfs.sentence_id FROM surface_forms sf JOIN surface_form_sentences sfs
\*  ON sf.surface_form_id = sfs.surface_form_id WHERE sf.dict_form_id = ?
SentencesOfDictForm(db, dict_form_id) ==
    {l[2] : l \in {m \in BagToSet(db.surface_form_sentences) :
                      /\ m[1] \in DOMAIN db.surface_forms
                      /\ db.surface_forms[m[1]].dict_form_id = dict_form_id}}

update_unknown_counts_for_dict_form(db, dict_form_id) ==
    [db EXCEPT !.sentences =
        [s \in DOMAIN @ |->
            IF s \in SentencesOfDictForm(db, dict_form_id)
            THEN [@[s] EXCEPT !.unknown_dictionary_form_count = UnknownCountOfSentence(db, s)]
            ELSE @[s]]]

\* the percentage with the known lemmas counted per joined row of the text
Comprehension_PerSentence(db, text_id) ==
    LET rows == {j \in JoinFormsSentences(db) :
                    /\ j[3] \in DOMAIN db.sentences
                    /\ db.sentences[j[3]].text_id = text_id}
        forms == {<<j[1], j[3]>> : j \in rows}
        total == Cardinality({f[1] : f \in forms})
        known_count == Cardinality({f \in forms : db.dictionary_forms[f[1]].known})
    IN IF forms = {} THEN Ratio(100, 1) ELSE Ratio(known_count * 100, total)

\* the percentage without the convention for a text with no lemma
Comprehension_EmptyZero(db, text_id) ==
    LET forms == {<<j[1], db.dictionary_forms[j[1]].known>> :
                     j \in {i \in JoinFormsSentences(db) :
                               /\ i[3] \in DOMAIN db.sentences
                               /\ db.sentences[i[3]].text_id = text_id}}
    IN IF forms = {} THEN Ratio(0, 1)
       ELSE Ratio(Cardinality({f \in forms : f[2]}) * 100, Cardinality(forms))

\* SELECT DISTINCT df.dict_form_id, df.known ... JOIN sentences s ... WHERE s.text_id = ?
\* and the percentage computed from the rows
Comprehension(db, text_id) ==
    LET forms == {<<j[1], db.dictionary_forms[j[1]].known>> :
                     j \in {i \in JoinFormsSentences(db) :
                               /\ i[3] \in DOMAIN db.sentences
                               /\ db.sentences[i[3]].text_id = text_id}}
        total == Cardinality(forms)
        known_count == Cardinality({f \in forms : f[2]})
    IN IF forms = {} THEN Ratio(100, 1) ELSE Ratio(known_count * 100, total)

update_text_comprehension(db, text_id) ==
    IF text_id \in DOMAIN db.texts
    THEN [db EXCEPT !.texts[text_id].comprehension_percentage = Comprehension(db, text_id)]
    ELSE db

SetDictionaryFormKnown(dict_form_id, known) ==
    /\ Commit(set_dictionary_form_known(DB, dict_form_id, known))
    /\ ret' = [op |-> "set_dictionary_form_known", dict_form_id |-> dict_form_id]
    /\ UNCHANGED frame

UpdateUnknownCountsForDictForm(dict_form_id) ==
    /\ Commit(update_unknown_counts_for_dict_form(DB, dict_form_id))
    /\ ret' = [op |-> "update_unknown_counts_for_dict_form", dict_form_id |-> dict_form_id,
               again |-> /\ ret.op = "update_unknown_counts_for_dict_form"
                         /\ ret.dict_form_id = dict_form_id]
    /\ UNCHANGED frame

UpdateTextComprehension(text_id) ==
    /\ Commit(update_text_comprehension(DB, text_id))
    /\ ret' = [op |-> "update_text_comprehension", text_id |-> text_id]
    /\ UNCHANGED frame

\* on_explore_checkbox_toggled, on_known_checkbox_toggled: the user marks a lemma
OnExploreCheckboxToggled(dict_form_id, known) ==
    /\ Commit(update_unknown_counts_for_dict_form(
                 set_dictionary_form_known(DB, dict_form_id, known), dict_form_id))
    /\ ret' = [op |-> "on_explore_checkbox_toggled", dict_form_id |-> dict_form_id]
    /\ UNCHANGED frame

-----------------------------------------------------------------------------
(* Ingestion handlers *)

\* a token of ContentParser.parse_content: base form, surface form, reading, pos
Token(base_form, surface_form) ==
    [base_form |-> base_form, surface_form |-> surface_form,
     reading |-> <<"a">>, pos |-> <<"a">>]

\* the text of a line is its tokens' surface forms in order
RECURSIVE ContentOf(_)
ContentOf(tokens) ==
    IF tokens = <<>> THEN <<>> ELSE Head(tokens).surface_form \o ContentOf(Tail(tokens))

\* CentralHub.update_unknown_count_for_sentence: the recount WHERE sentence_id = ?
update_unknown_count_for_sentence(db, sentence_id) ==
    IF sentence_id \in DOMAIN db.sentences
    THEN [db EXCEPT !.sentences[sentence_id].unknown_dictionary_form_count =
                        UnknownCountOfSentence(db, sentence_id)]
    ELSE db

\* for tk in tokens: get_or_create_dictionary_form, then add_surface_form
RECURSIVE IngestTokens(_, _, _, _, _)
IngestTokens(db, tokens, sentence_id, card_id, parse_kanji) ==
    IF tokens = <<>> THEN [db |-> db, raised |-> FALSE]
    ELSE LET tk == Head(tokens)
             g == get_or_create_dictionary_form(db, tk.base_form, tk.reading, tk.pos)
             a == add_surface_form(g.db, g.result, tk.surface_form, tk.reading, tk.pos,
                                   sentence_id, card_id, parse_kanji)
         IN IF a.raised THEN [db |-> a.db, raised |-> TRUE]
            ELSE IngestTokens(a.db, Tail(tokens), sentence_id, card_id, parse_kanji)

\* the cues of a subtitle file become sentences of the text, in order
RECURSIVE InsertCues(_, _, _)
InsertCues(db, text_id, cues) ==
    IF cues = <<>> THEN db
    ELSE LET id == NextId(db, "sentences")
         IN InsertCues([db EXCEPT
                          !.sentences = Insert(@, id, [text_id |-> text_id,
                                                       content |-> ContentOf(Head(cues)),
                                                       unknown_dictionary_form_count |-> 0]),
                          !.sqlite_sequence["sentences"] = id],
                       text_id, Tail(cues))

\* the morphological parse of every sentence of the text, by sentence id; cues
\* holds the tokens of the sentences first..first+Len(cues)-1
RECURSIVE ParseSentences(_, _, _)
ParseSentences(db, first, cues) ==
    IF cues = <<>> THEN [db |-> db, raised |-> FALSE]
    ELSE LET r == IngestTokens(db, Head(cues), first, NoInt, FALSE)
         IN IF r.raised THEN r
            ELSE ParseSentences(update_unknown_count_for_sentence(r.db, first),
                                first + 1, Tail(cues))

\* CentralHub.index_subtitle_file for a subtitle not yet in the database; a cue
\* is the token list the parser gives for its text
index_subtitle_file(db, subtitle_path, cues) ==
    LET t == add_text_source(db, subtitle_path, "video_subtitle")
        db1 == InsertCues(t.db, t.result, cues)
    IN ParseSentences(db1, NextId(t.db, "sentences"), cues).db

IndexSubtitleFile(subtitle_path, cues) ==
    /\ \A t \in DOMAIN texts : texts[t].source # subtitle_path
    /\ Commit(index_subtitle_file(DB, subtitle_path, cues))
    /\ ret' = [op |-> "index_subtitle_file"]
    /\ UNCHANGED frame

get_deck_id_by_name(db, deck_name) ==
    LET found == {d \in DOMAIN db.decks : db.decks[d].name = deck_name}
    IN IF found = {} THEN NoInt ELSE {Min(found)}

\* INSERT OR IGNORE on the UNIQUE name, then the id of the row of that name
add_deck(db, deck_name) ==
    LET id == NextId(db, "decks")
        found == {d \in DOMAIN db.decks : db.decks[d].name = deck_name}
    IN IF found # {} THEN [db |-> db, result |-> Min(found)]
       ELSE [db |-> [db EXCEPT !.decks = Insert(@, id, [name |-> deck_name]),
                               !.sqlite_sequence["decks"] = id],
             result |-> id]

get_or_create_deck(db, deck_name) ==
    LET deck_id == get_deck_id_by_name(db, deck_name)
    IN IF deck_id = NoInt THEN add_deck(db, deck_name)
       ELSE [db |-> db, result |-> CHOOSE d \in deck_id : TRUE]

\* the INSERT with unobtainable = 1 in place of the column default
add_card_Unobtainable(db, deck_id, media_id, anki_card_id, sentence_id) ==
    LET id == NextId(db, "cards")
    IN [db |-> [db EXCEPT
                  !.cards = Insert(@, id, [deck_id |-> deck_id, media_id |-> media_id,
                                           anki_card_id |-> anki_card_id,
                                           sentence_id |-> sentence_id,
                                           unobtainable |-> TRUE, gated |-> FALSE]),
                  !.sqlite_sequence["cards"] = id],
        result |-> {id}, raised |-> FALSE]

\* deck_id, media_id, anki_card_id (the id of the note the flashcard service
\* made) and sentence_id are optional integers; a deck_id or media_id
\* that names no row violates the foreign key and the INSERT raises
add_card(db, deck_id, media_id, anki_card_id, sentence_id) ==
    LET id == NextId(db, "cards")
        fk_ok == /\ deck_id \subseteq DOMAIN db.decks
                 /\ media_id \subseteq DOMAIN db.media
                 /\ sentence_id \subseteq DOMAIN db.sentences
    IN IF fk_ok
       THEN [db |-> [db EXCEPT
                       !.cards = Insert(@, id, [deck_id |-> deck_id, media_id |-> media_id,
                                                anki_card_id |-> anki_card_id,
                                                sentence_id |-> sentence_id,
                                                unobtainable |-> FALSE, gated |-> FALSE]),
                       !.sqlite_sequence["cards"] = id],
             result |-> {id}, raised |-> FALSE]
       ELSE [db |-> db, result |-> NoInt, raised |-> TRUE]

\* CentralHub.insert_imported_cards_into_db, for one card whose note was added
insert_imported_card(db, deck_name, tokens) ==
    LET w == get_or_create_deck(db, "Words")
        t == add_text_source(w.db, deck_name, "anki_import")
        s == add_sentence_if_not_exist(t.db, t.result, ContentOf(tokens))
        c == add_card(s.db, {w.result}, NoInt, {NextId(s.db, "cards")}, {s.result})
        r == IngestTokens(c.db, tokens, s.result, c.result, TRUE)
    IN IF r.raised THEN r.db ELSE update_unknown_count_for_sentence(r.db, s.result)

InsertImportedCard(deck_name, tokens) ==
    /\ Commit(insert_imported_card(DB, deck_name, tokens))
    /\ ret' = [op |-> "insert_imported_cards_into_db"]
    /\ UNCHANGED frame

-----------------------------------------------------------------------------
(* Coverage engine *)

Range(seq) == {seq[i] : i \in 1..Len(seq)}

\* the lookup without WHERE s.text_id = ?
get_forms_covered_AnyText(db, text_id) == {j[1] : j \in JoinFormsSentences(db)}

get_forms_covered_by_text(db, text_id) ==
    {j[1] : j \in {i \in JoinFormsSentences(db) :
                      /\ i[3] \in DOMAIN db.sentences
                      /\ db.sentences[i[3]].text_id = text_id}}

\* the scan with `>=` for `>`: the last text wins a tie, and a text that covers
\* nothing can be chosen
RECURSIVE BestText_LastWins(_, _, _, _, _, _, _)
BestText_LastWins(text_ids, chosen_texts, coverage_map, uncovered, i, best_text, best_cover_count) ==
    IF i > Len(text_ids) THEN best_text
    ELSE LET t_id == text_ids[i]
             cover == coverage_map[t_id] \cap uncovered
         IN IF t_id \in Range(chosen_texts)
            THEN BestText_LastWins(text_ids, chosen_texts, coverage_map, uncovered, i + 1,
                                   best_text, best_cover_count)
            ELSE IF Cardinality(cover) >= best_cover_count
            THEN BestText_LastWins(text_ids, chosen_texts, coverage_map, uncovered, i + 1,
                                   {t_id}, Cardinality(cover))
            ELSE BestText_LastWins(text_ids, chosen_texts, coverage_map, uncovered, i + 1,
                                   best_text, best_cover_count)

\* the inner loop of greedy_set_cover from candidate i on: best_text is None
\* ({}) or the best text seen so far
RECURSIVE BestText(_, _, _, _, _, _, _)
BestText(text_ids, chosen_texts, coverage_map, uncovered, i, best_text, best_cover_count) ==
    IF i > Len(text_ids) THEN best_text
    ELSE LET t_id == text_ids[i]
             cover == coverage_map[t_id] \cap uncovered
         IN IF t_id \in Range(chosen_texts)
            THEN BestText(text_ids, chosen_texts, coverage_map, uncovered, i + 1,
                          best_text, best_cover_count)
            ELSE IF Cardinality(cover) > best_cover_count
            THEN BestText(text_ids, chosen_texts, coverage_map, uncovered, i + 1,
                          {t_id}, Cardinality(cover))
            ELSE BestText(text_ids, chosen_texts, coverage_map, uncovered, i + 1,
                          best_text, best_cover_count)

\* the loop condition that takes limit=None for "no text may be chosen"
KeepChoosing_NoneStops(uncovered, chosen_texts, limit) ==
    uncovered # {} /\ \E n \in limit : Len(chosen_texts) < n

\* while uncovered and (limit is None or len(chosen_texts) < limit)
KeepChoosing(uncovered, chosen_texts, limit) ==
    uncovered # {} /\ (limit = NoInt \/ \A n \in limit : Len(chosen_texts) < n)

\* uncovered -= coverage_map[best_text]
Uncover(uncovered, covered) == uncovered \ covered

RECURSIVE GreedyLoop(_, _, _, _, _, _)
GreedyLoop(forms, text_ids, coverage_map, limit, uncovered, chosen_texts) ==
    IF ~KeepChoosing(uncovered, chosen_texts, limit) THEN chosen_texts
    ELSE LET best_text == BestText(text_ids, chosen_texts, coverage_map, uncovered, 1, NoInt, 0)
         IN IF best_text = NoInt THEN chosen_texts
            ELSE LET t == CHOOSE x \in best_text : TRUE
                 IN GreedyLoop(forms, text_ids, coverage_map, limit,
                               Uncover(uncovered, coverage_map[t]),
                               Append(chosen_texts, t))

greedy_set_cover(db, forms, text_ids, limit) ==
    LET coverage_map == [t \in Range(text_ids) |-> get_forms_covered_by_text(db, t)]
    IN GreedyLoop(forms, text_ids, coverage_map, limit, forms, <<>>)

GreedySetCover ==
    /\ query.op = "greedy_set_cover"
    /\ ret' = [op |-> "greedy_set_cover",
               result |-> greedy_set_cover(DB, query.forms, query.text_ids, query.limit)]
    /\ UNCHANGED <<store, durable, upserts, query>>

\* the lookup without the condition df.known = 0
get_unknown_dict_forms_AnyKnown(db, card_id) ==
    IF card_id \notin DOMAIN db.cards \/ db.cards[card_id].sentence_id = NoInt THEN {}
    ELSE {j[1] : j \in {i \in JoinFormsSentences(db) : {i[3]} = db.cards[card_id].sentence_id}}

get_unknown_dict_forms_from_card(db, card_id) ==
    IF card_id \notin DOMAIN db.cards \/ db.cards[card_id].sentence_id = NoInt THEN {}
    ELSE {j[1] : j \in {i \in JoinFormsSentences(db) :
                           /\ {i[3]} = db.cards[card_id].sentence_id
                           /\ ~db.dictionary_forms[i[1]].known}}

dict_form_covered_by_texts(db, dict_form_id, chosen_text_ids) ==
    IF chosen_text_ids = <<>> THEN FALSE
    ELSE Cardinality({j \in JoinFormsSentences(db) :
                         /\ j[1] = dict_form_id
                         /\ j[3] \in DOMAIN db.sentences
                         /\ db.sentences[j[3]].text_id \in Range(chosen_text_ids)}) > 0

set_card_unobtainable(db, card_id, unobtainable) ==
    IF card_id \in DOMAIN db.cards
    THEN [db EXCEPT !.cards[card_id].unobtainable = unobtainable]
    ELSE db

\* the loop of filter_cards_by_coverage over the candidates from i on
RECURSIVE FilterLoop(_, _, _, _, _)
FilterLoop(db, candidate_card_ids, chosen_text_ids, i, selected_cards) ==
    IF i > Len(candidate_card_ids) THEN [db |-> db, result |-> selected_cards]
    ELSE LET card_id == candidate_card_ids[i]
             unknown_forms == get_unknown_dict_forms_from_card(db, card_id)
             covered == \A df_id \in unknown_forms :
                           dict_form_covered_by_texts(db, df_id, chosen_text_ids)
         IN IF unknown_forms = {}
            THEN FilterLoop(db, candidate_card_ids, chosen_text_ids, i + 1,
                            Append(selected_cards, card_id))
            ELSE IF covered
            THEN FilterLoop(set_card_unobtainable(db, card_id, FALSE), candidate_card_ids,
                            chosen_text_ids, i + 1, Append(selected_cards, card_id))
            ELSE FilterLoop(set_card_unobtainable(db, card_id, TRUE), candidate_card_ids,
                            chosen_text_ids, i + 1, selected_cards)

filter_cards_by_coverage(db, candidate_card_ids, chosen_text_ids) ==
    FilterLoop(db, candidate_card_ids, chosen_text_ids, 1, <<>>)

FilterCardsByCoverage ==
    LET r == filter_cards_by_coverage(DB, query.candidate_card_ids, query.chosen_text_ids)
    IN /\ query.op = "filter_cards_by_coverage"
       /\ Commit(r.db)
       /\ ret' = [op |-> "filter_cards_by_coverage", result |-> r.result]
       /\ UNCHANGED frame

-----------------------------------------------------------------------------
(* The upsert contract of add_surface_form: the store under arbitrary calls  *)
(* of add_text_source, add_sentence_if_not_exist,                            *)
(* get_or_create_dictionary_form and add_surface_form                        *)

UpsertSources == {<<"t", "1">>}
UpsertContents == {<<"a">>, <<"k">>}
UpsertBaseForms == {<<"a">>, <<"k">>}
UpsertSurfaces == {<<"k">>, <<"k", "S">>}
UpsertReadings == {<<"a">>}
UpsertPos == {None, <<"a">>}
\* sentence 3 is never created: only two contents exist for the one text
UpsertSentenceIds == {1, 2, 3}

NextUpsert ==
    \/ \E s \in UpsertSources : AddTextSource(s, "video_subtitle")
    \/ \E t \in DOMAIN texts, c \in UpsertContents : AddSentenceIfNotExist(t, c)
    \/ \E b \in UpsertBaseForms : GetOrCreateDictionaryForm(b, None, None)
    \/ \E d \in DOMAIN dictionary_forms, sf \in UpsertSurfaces, r \in UpsertReadings,
          p \in UpsertPos, sid \in UpsertSentenceIds :
          AddSurfaceForm(d, sf, r, p, sid, NoInt, FALSE)

SpecUpsert == Init /\ [][NextUpsert]_vars


RowKey(f) == <<surface_forms[f].dict_form_id, surface_forms[f].surface_form,
               surface_forms[f].reading, surface_forms[f].pos>>

RowsOfKey(key) == {f \in DOMAIN surface_forms : RowKey(f) = key}

\* C1: a surface form (lemma id, surface text, reading, part of speech) that
\* add_surface_form was called N times for has exactly one surface_forms row,
\* whose frequency is N, whatever sentences the calls linked to; a row exists
\* only for a form that was upserted.
C1_UpsertFrequency ==
    /\ \A key \in BagToSet(upserts) :
          /\ Cardinality(RowsOfKey(key)) = 1
          /\ \A f \in RowsOfKey(key) : surface_forms[f].frequency = CopiesIn(key, upserts)
    /\ \A f \in DOMAIN surface_forms : BagIn(RowKey(f), upserts)

\* a form upserted MaxUpserts times, linked to two different sentences and once
\* to a sentence that does not exist
C1_Witness ==
    \E f \in DOMAIN surface_forms :
        /\ CopiesIn(RowKey(f), upserts) = MaxUpserts
        /\ BagIn(<<f, 1>>, surface_form_sentences)
        /\ BagIn(<<f, 2>>, surface_form_sentences)
        /\ BagCardinality(surface_form_sentences) = MaxUpserts - 1

-----------------------------------------------------------------------------
(* Unknown counts: the store under ingestion, set_dictionary_form_known and  *)
(* update_unknown_counts_for_dict_form                                       *)

CountSources == {<<"t", "1">>}
CountContents == {<<"a">>, <<"k">>}
CountBaseForms == {<<"a">>, <<"k">>}

NextCounts ==
    \/ \E s \in CountSources : AddTextSource(s, "video_subtitle")
    \/ \E t \in DOMAIN texts, c \in CountContents : AddSentenceIfNotExist(t, c)
    \/ \E b \in CountBaseForms : GetOrCreateDictionaryForm(b, None, None)
    \/ \E d \in DOMAIN dictionary_forms, sid \in DOMAIN sentences :
          AddSurfaceForm(d, dictionary_forms[d].base_form, <<"a">>, <<"a">>, sid, NoInt, FALSE)
    \/ \E d \in DOMAIN dictionary_forms, known \in BOOLEAN : SetDictionaryFormKnown(d, known)
    \/ \E d \in DOMAIN dictionary_forms : UpdateUnknownCountsForDictForm(d)

SpecCounts == Init /\ [][NextCounts]_vars

\* in store db, sentence s holds an occurrence of lemma d
HasLemma(db, s, d) ==
    \E f \in DOMAIN db.surface_forms :
        db.surface_forms[f].dict_form_id = d /\ BagIn(<<f, s>>, db.surface_form_sentences)

UnknownLemmas(db, s) ==
    {d \in DOMAIN db.dictionary_forms : ~db.dictionary_forms[d].known /\ HasLemma(db, s, d)}

SentenceHasLemma(s, d) == HasLemma(DB, s, d)

UnknownLemmasOf(s) == UnknownLemmas(DB, s)

\* C4: update_unknown_counts_for_dict_form(L) sets the unknown count of every
\* sentence that holds lemma L to the number of distinct unknown lemmas the
\* sentence holds, and leaves the count of every other sentence as it was.
C4_RecountSetsLinkedOnly ==
    [][ret'.op = "update_unknown_counts_for_dict_form" =>
          \A s \in DOMAIN sentences' :
             IF HasLemma(DB', s, ret'.dict_form_id)
             THEN sentences'[s].unknown_dictionary_form_count = Cardinality(UnknownLemmas(DB', s))
             ELSE sentences'[s] = sentences[s]]_vars

\* after a recount for L: a sentence of L with two occurrences of one unknown
\* lemma counted once, and a sentence without L whose stored count is stale
C4_Witness ==
    /\ ret.op = "update_unknown_counts_for_dict_form"
    /\ \E s \in DOMAIN sentences, f \in DOMAIN surface_forms :
          /\ surface_forms[f].dict_form_id = ret.dict_form_id
          /\ CopiesIn(<<f, s>>, surface_form_sentences) = 2
          /\ sentences[s].unknown_dictionary_form_count = 1
    /\ \E s \in DOMAIN sentences :
          /\ ~SentenceHasLemma(s, ret.dict_form_id)
          /\ sentences[s].unknown_dictionary_form_count # Cardinality(UnknownLemmasOf(s))

\* C5: a second update_unknown_counts_for_dict_form(L) directly after the first
\* leaves every sentence's unknown count as the first call left it.
C5_RecountIdempotent ==
    [][(ret'.op = "update_unknown_counts_for_dict_form" /\ ret'.again) =>
          sentences' = sentences]_vars

\* the second of two recounts in a row, on a sentence with a non-zero count
C5_Witness ==
    /\ ret.op = "update_unknown_counts_for_dict_form"
    /\ ret.again
    /\ \E s \in DOMAIN sentences :
          /\ SentenceHasLemma(s, ret.dict_form_id)
          /\ sentences[s].unknown_dictionary_form_count > 0

-----------------------------------------------------------------------------
(* Text comprehension: the store under ingestion, the user marking lemmas    *)
(* known or unknown, and update_text_comprehension                           *)

CompSources == {<<"t", "1">>, <<"t", "2">>}
CompContents == {<<"a">>, <<"k">>}
CompBaseForms == {<<"a">>, <<"k">>}

NextComprehension ==
    \/ \E s \in CompSources : AddTextSource(s, "video_subtitle")
    \/ \E t \in DOMAIN texts, c \in CompContents : AddSentenceIfNotExist(t, c)
    \/ \E b \in CompBaseForms : GetOrCreateDictionaryForm(b, None, None)
    \/ \E d \in DOMAIN dictionary_forms, sid \in DOMAIN sentences :
          /\ BagCardinality(upserts) < MaxLinks
          /\ AddSurfaceForm(d, dictionary_forms[d].base_form, <<"a">>, <<"a">>, sid, NoInt, FALSE)
    \/ \E d \in DOMAIN dictionary_forms, known \in BOOLEAN : OnExploreCheckboxToggled(d, known)
    \/ \E t \in DOMAIN texts : UpdateTextComprehension(t)

SpecComprehension == Init /\ [][NextComprehension]_vars

\* the lemmas that occur in some sentence of text t
LemmasOfText(t) ==
    {d \in DOMAIN dictionary_forms :
        \E s \in DOMAIN sentences : sentences[s].text_id = t /\ SentenceHasLemma(s, d)}

KnownLemmasOfText(t) == {d \in LemmasOfText(t) : dictionary_forms[d].known}

\* 0 <= p <= 100 for the rational p
InPercentRange(p) == p.den > 0 /\ 0 <= p.num /\ p.num <= 100 * p.den

\* C2: the comprehension percentage of every text is between 0 and 100, and
\* update_text_comprehension stores exactly 100 for a text none of whose
\* sentences is linked to a lemma.
C2_ComprehensionBounds ==
    /\ \A t \in DOMAIN texts : InPercentRange(texts[t].comprehension_percentage)
    /\ (ret.op = "update_text_comprehension" /\ LemmasOfText(ret.text_id) = {}) =>
          texts[ret.text_id].comprehension_percentage = [num |-> 100, den |-> 1]

\* update_text_comprehension has just run on a text that has a sentence but no
\* lemma, while another text stands at 50 percent
C2_Witness ==
    /\ ret.op = "update_text_comprehension"
    /\ LemmasOfText(ret.text_id) = {}
    /\ \E s \in DOMAIN sentences : sentences[s].text_id = ret.text_id
    /\ \E t \in DOMAIN texts : texts[t].comprehension_percentage = [num |-> 50, den |-> 1]

\* C3: update_text_comprehension stores 100 * (distinct known lemmas of the
\* text) / (distinct lemmas of the text), by the known flags at the call; a text
\* whose only lemma is unknown gets 0, and 100 once that lemma is marked known.
C3_ComprehensionValue ==
    (ret.op = "update_text_comprehension" /\ LemmasOfText(ret.text_id) # {}) =>
        LET p == texts[ret.text_id].comprehension_percentage
        IN /\ p.num * Cardinality(LemmasOfText(ret.text_id))
                = 100 * Cardinality(KnownLemmasOfText(ret.text_id)) * p.den
           /\ (Cardinality(LemmasOfText(ret.text_id)) = 1 =>
                 p = IF KnownLemmasOfText(ret.text_id) = {}
                     THEN [num |-> 0, den |-> 1] ELSE [num |-> 100, den |-> 1])

\* the text's only lemma, occurring in two of its sentences, has been marked
\* known and the recomputed percentage is 100
C3_Witness ==
    /\ ret.op = "update_text_comprehension"
    /\ Cardinality(LemmasOfText(ret.text_id)) = 1
    /\ KnownLemmasOfText(ret.text_id) = LemmasOfText(ret.text_id)
    /\ Cardinality({s \in DOMAIN sentences : sentences[s].text_id = ret.text_id
                       /\ \E d \in LemmasOfText(ret.text_id) : SentenceHasLemma(s, d)}) = 2
    /\ texts[ret.text_id].comprehension_percentage = [num |-> 100, den |-> 1]

-----------------------------------------------------------------------------
(* Set cover: greedy_set_cover on the stores that indexing subtitle files    *)
(* builds, for every target set, candidate list and limit                    *)

SeqsUpTo(S, n) == UNION {[1..k -> S] : k \in 0..n}

CoverPaths == {<<"t", "1">>, <<"t", "2">>}
CoverBaseForms == {<<"a">>, <<"k">>, <<"a", "k">>}
CoverTokens == {Token(b, b) : b \in CoverBaseForms}
CoverForms == SUBSET {1, 2, 3}
CoverTextIds == {1, 2}
CoverLimits == {NoInt} \cup {{n} : n \in 0..MaxCandidates}

InitCover ==
    /\ InitStore
    /\ query \in [op : {"greedy_set_cover"}, forms : CoverForms,
                  text_ids : SeqsUpTo(CoverTextIds, MaxCandidates), limit : CoverLimits]

NextCover ==
    \/ \E path \in CoverPaths, tokens \in SeqsUpTo(CoverTokens, MaxTokens) :
          IndexSubtitleFile(path, <<tokens>>)
    \/ GreedySetCover

SpecCover == InitCover /\ [][NextCover]_vars

\* the target lemmas still uncovered once the first n chosen texts are taken
UncoveredAfter(chosen, n) ==
    query.forms \ UNION {LemmasOfText(chosen[j]) : j \in 1..n}

\* how many lemmas of U text t covers
Gain(t, U) == Cardinality(LemmasOfText(t) \cap U)

\* the position of text t in the candidate list
FirstIndex(t) == Min({k \in 1..Len(query.text_ids) : query.text_ids[k] = t})

\* C6: each text greedy_set_cover chose was a candidate not chosen before that
\* covered at least one lemma still uncovered, no other remaining candidate
\* covered more of them, and none listed before it covered as many; it chose
\* only while a target lemma was uncovered and fewer than limit texts were
\* chosen, and it stopped only when nothing was uncovered, no remaining
\* candidate covered an uncovered lemma, or limit texts were chosen.
C6_GreedyChoice ==
    ret.op = "greedy_set_cover" =>
      LET chosen == ret.result
          n == Len(chosen)
          Remaining(i) == Range(query.text_ids) \ {chosen[j] : j \in 1..(i - 1)}
      IN /\ \A i \in 1..n :
              LET U == UncoveredAfter(chosen, i - 1)
              IN /\ chosen[i] \in Remaining(i)
                 /\ Gain(chosen[i], U) >= 1
                 /\ \A t \in Remaining(i) :
                       /\ Gain(t, U) <= Gain(chosen[i], U)
                       /\ FirstIndex(t) < FirstIndex(chosen[i]) => Gain(t, U) < Gain(chosen[i], U)
                 /\ \A lim \in query.limit : i <= lim
         /\ \/ UncoveredAfter(chosen, n) = {}
            \/ \A t \in Remaining(n + 1) : Gain(t, UncoveredAfter(chosen, n)) = 0
            \/ query.limit = {n}

\* two candidates tie on the first choice and the second listed candidate
\* still covers a lemma afterwards: both are chosen, the first listed first
C6_Witness ==
    /\ ret.op = "greedy_set_cover"
    /\ Len(ret.result) = 2
    /\ ret.result = query.text_ids
    /\ Gain(ret.result[1], query.forms) = Gain(ret.result[2], query.forms)
    /\ Gain(ret.result[1], query.forms) = 2

CoveredTargets(chosen) == query.forms \cap UNION {LemmasOfText(t) : t \in Range(chosen)}

\* C7: the target lemmas covered by what greedy_set_cover returns with
\* limit=None include those covered by what it returns with any finite limit,
\* for the same targets, candidates and store.
C7_NoLimitCoversMore ==
    (ret.op = "greedy_set_cover" /\ query.limit = NoInt) =>
        \A lim \in 0..(MaxCandidates + 1) :
            CoveredTargets(greedy_set_cover(DB, query.forms, query.text_ids, {lim}))
                \subseteq CoveredTargets(ret.result)

\* without a limit two texts are chosen, and a limit of 1 covers strictly less
C7_Witness ==
    /\ ret.op = "greedy_set_cover"
    /\ query.limit = NoInt
    /\ Len(ret.result) = 2
    /\ CoveredTargets(greedy_set_cover(DB, query.forms, query.text_ids, {1}))
          # CoveredTargets(ret.result)

\* C8: when every target lemma occurs in some candidate text, the texts
\* greedy_set_cover returns with no limit cover every target lemma; with one
\* text covering {A,B}, the other {B,C} and the target {A,B,C} it returns both.
C8_FullCover ==
    (/\ ret.op = "greedy_set_cover"
     /\ query.limit = NoInt
     /\ \A d \in query.forms : \E t \in Range(query.text_ids) : d \in LemmasOfText(t)) =>
        /\ CoveredTargets(ret.result) = query.forms
        /\ (/\ query.forms = {1, 2, 3}
            /\ \E t1, t2 \in Range(query.text_ids) :
                  /\ LemmasOfText(t1) = {1, 2}
                  /\ LemmasOfText(t2) = {2, 3}) => Range(ret.result) = {1, 2}

\* the scenario: T1 covers {A,B}, T2 covers {B,C}, target {A,B,C}, both returned
C8_Witness ==
    /\ ret.op = "greedy_set_cover"
    /\ query.limit = NoInt
    /\ query.forms = {1, 2, 3}
    /\ query.text_ids = <<1, 2>>
    /\ LemmasOfText(1) = {1, 2}
    /\ LemmasOfText(2) = {2, 3}
    /\ ret.result = <<1, 2>>

-----------------------------------------------------------------------------
(* Card obtainability: filter_cards_by_coverage on the stores that indexing  *)
(* a subtitle file, importing cards and marking lemmas known build           *)

CardPaths == {<<"t", "1">>}
CardDecks == {<<"t", "2">>}
CardBaseForms == {<<"a">>, <<"k">>}
CardTokens == {Token(b, b) : b \in CardBaseForms}
CardIds == {1, 2}
CardTextIds == {1, 2}

InitCards ==
    /\ InitStore
    /\ query \in [op : {"filter_cards_by_coverage"},
                  candidate_card_ids : SeqsUpTo(CardIds, MaxCandidates),
                  chosen_text_ids : SeqsUpTo(CardTextIds, MaxCandidates)]

NextCards ==
    \/ \E path \in CardPaths, tokens \in SeqsUpTo(CardTokens, MaxTokens) :
          IndexSubtitleFile(path, <<tokens>>)
    \/ \E deck \in CardDecks, tokens \in SeqsUpTo(CardTokens, MaxTokens) :
          /\ Cardinality(DOMAIN cards) < MaxCards
          /\ InsertImportedCard(deck, tokens)
    \/ \E d \in DOMAIN dictionary_forms, known \in BOOLEAN : OnExploreCheckboxToggled(d, known)
    \/ FilterCardsByCoverage

SpecCards == InitCards /\ [][NextCards]_vars

\* the lemmas some surface form ties to the sentence of card c
CardLemmas(db, c) ==
    {d \in DOMAIN db.dictionary_forms :
        \E s \in db.cards[c].sentence_id : HasLemma(db, s, d)}

CardUnknownLemmas(db, c) == {d \in CardLemmas(db, c) : ~db.dictionary_forms[d].known}

\* lemma d is referenced by some sentence of a text in text_ids
LemmaInTexts(db, d, text_ids) ==
    \E s \in DOMAIN db.sentences : db.sentences[s].text_id \in text_ids /\ HasLemma(db, s, d)

CardCovered(db, c, text_ids) ==
    \A d \in CardUnknownLemmas(db, c) : LemmaInTexts(db, d, text_ids)

\* C9: after filter_cards_by_coverage(candidates, chosenTexts) every candidate
\* card whose unknown lemmas are all referenced by a sentence of a chosen text is
\* in the returned list with unobtainable = false, and every other candidate
\* card is not returned and has unobtainable = true, whatever the flag was
\* before.  The call changes only the flag, so the lemmas and the texts of the
\* state after the call are those the call saw.
C9_ObtainableIffCovered ==
    ret.op = "filter_cards_by_coverage" =>
       \A c \in Range(query.candidate_card_ids) \cap DOMAIN cards :
          IF CardCovered(DB, c, Range(query.chosen_text_ids))
          THEN c \in Range(ret.result) /\ ~cards[c].unobtainable
          ELSE c \notin Range(ret.result) /\ cards[c].unobtainable

\* C10: filter_cards_by_coverage returns every candidate card whose sentence is
\* linked only to lemmas with known = true and does not turn its unobtainable
\* flag on, for every chosen text list, the empty one included.
C10_KnownOnlyNeverUnobtainable ==
    [][ret'.op = "filter_cards_by_coverage" =>
          \A c \in Range(query.candidate_card_ids) \cap DOMAIN cards :
             CardUnknownLemmas(DB, c) = {} =>
                /\ c \in Range(ret'.result)
                /\ cards'[c].unobtainable => cards[c].unobtainable]_vars

\* a call with no chosen text has returned a candidate card whose sentence
\* holds a lemma, all of them known, and the card is not unobtainable
C10_Witness ==
    /\ ret.op = "filter_cards_by_coverage"
    /\ query.chosen_text_ids = <<>>
    /\ \E c \in Range(query.candidate_card_ids) \cap DOMAIN cards :
          /\ CardLemmas(DB, c) # {}
          /\ CardUnknownLemmas(DB, c) = {}
          /\ c \in Range(ret.result)
          /\ ~cards[c].unobtainable

-----------------------------------------------------------------------------
(* In-memory comprehension prediction (CentralHub) *)

\* arithmetic on the rationals that stand for Python floats
RatAdd(a, b) == Ratio(a.num * b.den + b.num * a.den, a.den * b.den)

RatSub(a, b) == Ratio(a.num * b.den - b.num * a.den, a.den * b.den)

RatDivInt(a, n) == Ratio(a.num, a.den * n)

RatLess(a, b) == a.num * b.den < b.num * a.den

RatZero == Ratio(0, 1)

\* the rows of a SELECT over an INTEGER PRIMARY KEY table, in rowid order
RECURSIVE SortedSeq(_)
SortedSeq(S) == IF S = {} THEN <<>> ELSE <<Min(S)>> \o SortedSeq(S \ {Min(S)})

set_text_studying(db, text_id, studying) ==
    IF text_id \in DOMAIN db.texts
    THEN [db EXCEPT !.texts[text_id].studying = studying]
    ELSE db

\* CentralHub.on_arrow_right_clicked / on_arrow_left_clicked on a listed text
SetTextStudying(text_id, studying) ==
    /\ text_id \in DOMAIN texts
    /\ Commit(set_text_studying(DB, text_id, studying))
    /\ ret' = [op |-> "set_text_studying"]
    /\ UNCHANGED frame

\* SELECT DISTINCT df.dict_form_id ... WHERE s.text_id = ?
FormsInText(db, tid) ==
    {j[1] : j \in {i \in JoinFormsSentences(db) :
                      /\ i[3] \in DOMAIN db.sentences
                      /\ db.sentences[i[3]].text_id = tid}}

\* the percentage one text adds to total_percent
TextPercent(db, tid, known_forms_set) ==
    LET forms_in_text == FormsInText(db, tid)
        known_count == Cardinality(forms_in_text \cap known_forms_set)
    IN IF forms_in_text = {} THEN Ratio(100, 1)
       ELSE Ratio(known_count * 100, Cardinality(forms_in_text))

RECURSIVE TotalPercent(_, _, _)
TotalPercent(db, studying_texts, known_forms_set) ==
    IF studying_texts = <<>> THEN RatZero
    ELSE RatAdd(TextPercent(db, Head(studying_texts), known_forms_set),
                TotalPercent(db, Tail(studying_texts), known_forms_set))

\* the average it returns (the number of texts it also returns is not used)
compute_average_comprehension_for_studying_texts(db, known_forms_set) ==
    LET studying_texts == SortedSeq({t \in DOMAIN db.texts : db.texts[t].studying})
    IN IF studying_texts = <<>> THEN Ratio(100, 1)
       ELSE RatDivInt(TotalPercent(db, studying_texts, known_forms_set), Len(studying_texts))

compute_card_incremental_improvement(db, card_id, known_forms_set, baseline) ==
    LET unknowns == get_unknown_dict_forms_from_card(db, card_id)
    IN IF unknowns = {} THEN RatZero
       ELSE RatSub(compute_average_comprehension_for_studying_texts(
                      db, known_forms_set \cup unknowns), baseline)

\* the inner loop taking the first candidate that improves, not the best one
RECURSIVE BestCard_FirstImproving(_, _, _, _, _, _, _)
BestCard_FirstImproving(db, candidate_cards, known_forms_set, current_avg, i, best_card, best_improv) ==
    IF i > Len(candidate_cards) THEN [best_card |-> best_card, best_improv |-> best_improv]
    ELSE LET inc == compute_card_incremental_improvement(db, candidate_cards[i],
                                                         known_forms_set, current_avg)
         IN IF RatLess(RatZero, inc) /\ best_card = NoInt
            THEN BestCard_FirstImproving(db, candidate_cards, known_forms_set, current_avg,
                                         i + 1, {candidate_cards[i]}, inc)
            ELSE BestCard_FirstImproving(db, candidate_cards, known_forms_set, current_avg,
                                         i + 1, best_card, best_improv)

\* for card_id in candidate_cards: keep the card of the largest inc seen so far
RECURSIVE BestCard(_, _, _, _, _, _, _)
BestCard(db, candidate_cards, known_forms_set, current_avg, i, best_card, best_improv) ==
    IF i > Len(candidate_cards) THEN [best_card |-> best_card, best_improv |-> best_improv]
    ELSE LET inc == compute_card_incremental_improvement(db, candidate_cards[i],
                                                         known_forms_set, current_avg)
         IN IF RatLess(best_improv, inc)
            THEN BestCard(db, candidate_cards, known_forms_set, current_avg,
                          i + 1, {candidate_cards[i]}, inc)
            ELSE BestCard(db, candidate_cards, known_forms_set, current_avg,
                          i + 1, best_card, best_improv)

\* candidate_cards.remove(best_card)
Remove(seq, x) == SelectSeq(seq, LAMBDA y : y # x)

\* for _ in range(X), with rounds the number of rounds still to run
RECURSIVE PredictLoop(_, _, _, _, _, _)
PredictLoop(db, rounds, candidate_cards, known_forms_set, current_avg, chosen) ==
    IF rounds <= 0 THEN [current_avg |-> current_avg, chosen |-> chosen]
    ELSE LET b == BestCard(db, candidate_cards, known_forms_set, current_avg, 1, NoInt, RatZero)
         IN IF b.best_card = NoInt \/ ~RatLess(RatZero, b.best_improv)
            THEN [current_avg |-> current_avg, chosen |-> chosen]
            ELSE LET best_card == CHOOSE c \in b.best_card : TRUE
                     known == known_forms_set \cup get_unknown_dict_forms_from_card(db, best_card)
                 IN PredictLoop(db, rounds - 1, Remove(candidate_cards, best_card), known,
                                compute_average_comprehension_for_studying_texts(db, known),
                                Append(chosen, best_card))

\* SELECT c.card_id FROM cards c JOIN sentences s ... WHERE c.deck_id = ?
\* AND s.unknown_dictionary_form_count <= 1
NPlusOneCards(db, words_deck_id) ==
    {c \in DOMAIN db.cards :
        /\ db.cards[c].deck_id = words_deck_id
        /\ \E s \in db.cards[c].sentence_id :
              /\ s \in DOMAIN db.sentences
              /\ db.sentences[s].unknown_dictionary_form_count <= 1}

\* what the call returns, with its locals chosen and baseline_avg ({} when the
\* call returned before computing it)
predict_comprehension_increase_for_X_cards(db, X) ==
    LET words_deck_id == get_deck_id_by_name(db, "Words")
        candidate_cards == SortedSeq(NPlusOneCards(db, words_deck_id))
        known_forms_set == {d \in DOMAIN db.dictionary_forms : db.dictionary_forms[d].known}
        baseline_avg == compute_average_comprehension_for_studying_texts(db, known_forms_set)
        r == PredictLoop(db, X, candidate_cards, known_forms_set, baseline_avg, <<>>)
    IN IF words_deck_id = NoInt \/ candidate_cards = <<>>
       THEN [final_avg |-> RatZero, delta |-> RatZero, chosen |-> <<>>, baseline_avg |-> {}]
       ELSE [final_avg |-> r.current_avg, delta |-> RatSub(r.current_avg, baseline_avg),
             chosen |-> r.chosen, baseline_avg |-> {baseline_avg}]

PredictComprehensionIncreaseForXCards(X) ==
    LET r == predict_comprehension_increase_for_X_cards(DB, X)
    IN /\ ret' = [op |-> "predict_comprehension_increase_for_X_cards", X |-> X,
                  final_avg |-> r.final_avg, delta |-> r.delta, chosen |-> r.chosen,
                  baseline_avg |-> r.baseline_avg]
       /\ UNCHANGED <<store, durable, frame>>

-----------------------------------------------------------------------------
(* Comprehension prediction on the stores that indexing a subtitle file,     *)
(* importing cards, choosing texts to study and marking lemmas known build   *)

PredictPaths == {<<"t", "1">>}
PredictDecks == {<<"t", "2">>}
PredictBaseForms == {<<"a">>, <<"k">>}
PredictTokens == {Token(b, b) : b \in PredictBaseForms}
\* the lines of the subtitle file and the sentences of the cards, as token lists
PredictSubtitleLines ==
    {<<>>, <<Token(<<"a">>, <<"a">>)>>, <<Token(<<"a">>, <<"a">>), Token(<<"k">>, <<"k">>)>>}
PredictCardLines == PredictSubtitleLines \cup {<<t>> : t \in PredictTokens}

NextPredict ==
    \/ \E path \in PredictPaths, tokens \in PredictSubtitleLines :
          IndexSubtitleFile(path, <<tokens>>)
    \/ \E deck \in PredictDecks, tokens \in PredictCardLines :
          /\ Cardinality(DOMAIN cards) < MaxWordsCards
          /\ InsertImportedCard(deck, tokens)
    \/ \E t \in DOMAIN texts, studying \in BOOLEAN : SetTextStudying(t, studying)
    \/ \E d \in DOMAIN dictionary_forms, known \in BOOLEAN : OnExploreCheckboxToggled(d, known)
    \/ \E X \in 0..MaxPicks : PredictComprehensionIncreaseForXCards(X)

SpecPredict == Init /\ [][NextPredict]_vars

KnownLemmasNow == {d \in DOMAIN dictionary_forms : dictionary_forms[d].known}

StudyingTexts == {t \in DOMAIN texts : texts[t].studying}

\* the sum over the texts T of the percentage of the lemmas of the text that are in K
RECURSIVE SumOfPercentages(_, _)
SumOfPercentages(T, K) ==
    IF T = {} THEN RatZero
    ELSE LET t == CHOOSE x \in T : TRUE
             L == LemmasOfText(t)
             p == IF L = {} THEN Ratio(100, 1)
                  ELSE Ratio(100 * Cardinality(L \cap K), Cardinality(L))
         IN RatAdd(p, SumOfPercentages(T \ {t}, K))

\* the average comprehension over the texts with studying = true if exactly the
\* lemmas K were known; 100 when no text is studied
StudyAverage(K) ==
    IF StudyingTexts = {} THEN Ratio(100, 1)
    ELSE RatDivInt(SumOfPercentages(StudyingTexts, K), Cardinality(StudyingTexts))

\* C11: predict_comprehension_increase_for_X_cards(0) returns (baseline, 0.0),
\* baseline being the current average comprehension over the texts with
\* studying = true, in every store state.  The call writes nothing, so the
\* state after it is the state it ran in.
C11_ZeroCardsReturnsBaseline ==
    (ret.op = "predict_comprehension_increase_for_X_cards" /\ ret.X = 0) =>
       /\ ret.final_avg = StudyAverage(KnownLemmasNow)
       /\ ret.delta = RatZero

\* the cards of the Words deck whose sentence has at most one unknown lemma
WordsCandidates ==
    {c \in DOMAIN cards :
        /\ \E d \in cards[c].deck_id : d \in DOMAIN decks /\ decks[d].name = "Words"
        /\ \E s \in cards[c].sentence_id :
              s \in DOMAIN sentences /\ sentences[s].unknown_dictionary_form_count <= 1}

\* the lemmas simulated as known after the first n committed cards
KnownAfter(n) ==
    KnownLemmasNow \cup UNION {CardUnknownLemmas(DB, ret.chosen[j]) : j \in 1..n}

\* the simulated average if card c were learned after the first n committed cards
AverageWith(n, c) == StudyAverage(KnownAfter(n) \cup CardUnknownLemmas(DB, c))

\* the i-th committed card raises the average, and no remaining candidate raises it more
BestOfRound(i) ==
    /\ ret.chosen[i] \in WordsCandidates \ {ret.chosen[j] : j \in 1..(i - 1)}
    /\ RatLess(StudyAverage(KnownAfter(i - 1)), AverageWith(i - 1, ret.chosen[i]))
    /\ \A c \in WordsCandidates \ {ret.chosen[j] : j \in 1..(i - 1)} :
          ~RatLess(AverageWith(i - 1, ret.chosen[i]), AverageWith(i - 1, c))

-----------------------------------------------------------------------------
(* Frequency ranking of the lemmas *)

RECURSIVE SumOfBag(_)
SumOfBag(B) ==
    IF BagToSet(B) = {} THEN 0
    ELSE LET x == CHOOSE y \in BagToSet(B) : TRUE
         IN x[1] * CopiesIn(x, B) + SumOfBag([y \in BagToSet(B) \ {x} |-> B[y]])

\* the rows of the LEFT JOIN chain for lemma d that pass
\* WHERE t.studying = 1 OR t.studying IS NULL, as a bag of
\* <<sf.frequency, surface_form_id, sentence_id>> (0 for a NULL frequency, {}
\* for a NULL id): a lemma without surface form and a surface form without
\* link each give one row whose t.studying is NULL
RankingJoinRows(db, d) ==
    LET forms == {f \in DOMAIN db.surface_forms : db.surface_forms[f].dict_form_id = d}
        links(f) == {l \in BagToSet(db.surface_form_sentences) : l[1] = f}
        passes(l) ==
            \/ l[2] \notin DOMAIN db.sentences
            \/ db.sentences[l[2]].text_id \notin DOMAIN db.texts
            \/ db.texts[db.sentences[l[2]].text_id].studying
        no_form == IF forms = {} THEN SetToBag({<<0, {}, {}>>}) ELSE EmptyBag
        no_link == SetToBag({<<db.surface_forms[f].frequency, {f}, {}>> :
                                f \in {g \in forms : links(g) = {}}})
        linked == {l \in BagToSet(db.surface_form_sentences) : l[1] \in forms /\ passes(l)}
        by_link == [r \in {<<db.surface_forms[l[1]].frequency, {l[1]}, {l[2]}>> : l \in linked}
                      |-> CopiesIn(<<CHOOSE f \in r[2] : TRUE, CHOOSE x \in r[3] : TRUE>>,
                                   db.surface_form_sentences)]
    IN no_form (+) no_link (+) by_link

\* the freq table: the lemmas with a passing row, each with IFNULL(SUM(sf.frequency), 0)
RankingFreq(db) ==
    LET present == {d \in DOMAIN db.dictionary_forms :
                       BagToSet(RankingJoinRows(db, d)) # {}}
    IN [d \in present |-> SumOfBag(RankingJoinRows(db, d))]

\* the row orders ORDER BY total_freq DESC allows (no order among equal totals)
RankingOrders(db) ==
    LET freq == RankingFreq(db)
        n == Cardinality(DOMAIN freq)
    IN {rows \in [1..n -> DOMAIN freq] :
           /\ \A i, j \in 1..n : rows[i] = rows[j] => i = j
           /\ \A i, j \in 1..n : i < j => freq[rows[i]] >= freq[rows[j]]}

\* rank = 1; for (df_id, total_freq) in rows: UPDATE ... SET ranking = rank; rank += 1
AssignRanks(db, rows) ==
    [db EXCEPT !.dictionary_forms =
        [d \in DOMAIN @ |->
            IF \E i \in 1..Len(rows) : rows[i] = d
            THEN [@[d] EXCEPT !.ranking = {CHOOSE i \in 1..Len(rows) : rows[i] = d}]
            ELSE @[d]]]

\* the rankings written for one of the row orders the query may give
update_dictionary_form_rankings(db, rows) == AssignRanks(db, rows)

UpdateDictionaryFormRankings ==
    \E rows \in RankingOrders(DB) :
       /\ Commit(update_dictionary_form_rankings(DB, rows))
       /\ ret' = [op |-> "update_dictionary_form_rankings"]
       /\ UNCHANGED frame

\* for tid in all_text_ids: update_text_comprehension(tid)
RECURSIVE UpdateAllComprehension(_, _)
UpdateAllComprehension(db, all_text_ids) ==
    IF all_text_ids = <<>> THEN db
    ELSE UpdateAllComprehension(update_text_comprehension(db, Head(all_text_ids)),
                                Tail(all_text_ids))

OnUpdateComprehensionClicked ==
    LET db1 == UpdateAllComprehension(DB, SortedSeq(DOMAIN texts))
    IN \E rows \in RankingOrders(db1) :
          /\ Commit(update_dictionary_form_rankings(db1, rows))
          /\ ret' = [op |-> "on_update_comprehension_clicked"]
          /\ UNCHANGED frame

-----------------------------------------------------------------------------
(* Rankings on the stores that indexing subtitle files and choosing the      *)
(* texts to study build                                                      *)

RankingPaths == {<<"t", "1">>, <<"t", "2">>}
RankingBaseForms == {<<"a">>, <<"k">>}
RankingTokens == {Token(b, b) : b \in RankingBaseForms}

NextRanking ==
    \/ \E path \in RankingPaths, tokens \in SeqsUpTo(RankingTokens, MaxTokens) :
          IndexSubtitleFile(path, <<tokens>>)
    \/ \E t \in DOMAIN texts, studying \in BOOLEAN : SetTextStudying(t, studying)
    \/ UpdateDictionaryFormRankings
    \/ OnUpdateComprehensionClicked

SpecRanking == Init /\ [][NextRanking]_vars

RankingDone == ret.op \in {"update_dictionary_form_rankings", "on_update_comprehension_clicked"}

\* C13: after update_dictionary_form_rankings every lemma has a ranking and the
\* rankings are exactly 1..N for the N lemmas, each used once, also for lemmas
\* that occur only in texts with studying = false or have no sentence link.
C13_RanksAreOneToN ==
    RankingDone =>
       /\ \A d \in DOMAIN dictionary_forms : dictionary_forms[d].ranking # NoInt
       /\ UNION {dictionary_forms[d].ranking : d \in DOMAIN dictionary_forms}
             = 1..Cardinality(DOMAIN dictionary_forms)
       /\ \A d, e \in DOMAIN dictionary_forms :
             dictionary_forms[d].ranking = dictionary_forms[e].ranking => d = e

\* surface form f is linked to a sentence of a text with studying = true
InStudyingText(f) ==
    \E s \in DOMAIN sentences :
       /\ BagIn(<<f, s>>, surface_form_sentences)
       /\ sentences[s].text_id \in DOMAIN texts
       /\ texts[sentences[s].text_id].studying

RECURSIVE SumOfFrequencies(_)
SumOfFrequencies(F) ==
    IF F = {} THEN 0
    ELSE LET f == CHOOSE x \in F : TRUE
         IN surface_forms[f].frequency + SumOfFrequencies(F \ {f})

\* the total of lemma d: the frequencies of its surface forms that occur in
\* sentences of studying texts, 0 when none does
StudyingTotal(d) ==
    SumOfFrequencies({f \in DOMAIN surface_forms :
                         surface_forms[f].dict_form_id = d /\ InStudyingText(f)})

\* C14: after update_dictionary_form_rankings, a lemma whose total over the
\* studying texts is greater than another's has the smaller rank.
C14_RankFollowsTotal ==
    RankingDone =>
       \A a, b \in DOMAIN dictionary_forms :
          StudyingTotal(a) > StudyingTotal(b) =>
             /\ dictionary_forms[a].ranking # NoInt
             /\ dictionary_forms[b].ranking # NoInt
             /\ \A i \in dictionary_forms[a].ranking, j \in dictionary_forms[b].ranking : i < j

-----------------------------------------------------------------------------
(* Media sources and remove_path *)

\* a path is its characters; "/" is os.sep
Sep == "/"

\* os.path.normpath on a relative path without "." and "..": runs of
\* separators collapse to one and a trailing separator goes
RECURSIVE normpath(_)
normpath(path) ==
    IF Len(path) <= 1 THEN path
    ELSE IF path[Len(path)] = Sep THEN normpath(SubSeq(path, 1, Len(path) - 1))
    ELSE IF path[1] = Sep /\ path[2] = Sep THEN normpath(Tail(path))
    ELSE <<path[1]>> \o normpath(Tail(path))

\* str.startswith
StartsWith(str, prefix) ==
    Len(prefix) <= Len(str) /\ SubSeq(str, 1, Len(prefix)) = prefix

\* the bag with only its rows in kept
BagKeep(B, kept) == [x \in kept \cap BagToSet(B) |-> B[x]]

\* the table with only its rows whose id is in kept
TableKeep(table, kept) == [x \in kept \cap DOMAIN table |-> table[x]]

\* INSERT OR IGNORE INTO sources: the table _create_tables made has no UNIQUE
add_source_folder(db, folder_path) ==
    LET id == NextId(db, "sources")
    IN [db EXCEPT !.sources = Insert(@, id, [folder_path |-> folder_path]),
                  !.sqlite_sequence["sources"] = id]

\* INSERT OR IGNORE on the UNIQUE file_path, then the id of the row of that path
add_media(db, file_path) ==
    LET id == NextId(db, "media")
        found == {m \in DOMAIN db.media : db.media[m].file_path = file_path}
    IN IF found # {} THEN [db |-> db, result |-> Min(found)]
       ELSE [db |-> [db EXCEPT !.media = Insert(@, id, [file_path |-> file_path]),
                               !.sqlite_sequence["media"] = id],
             result |-> id]

subtitle_already_exists(db, subtitle_file) ==
    \E b \in DOMAIN db.subtitles : db.subtitles[b].subtitle_file = subtitle_file

\* INSERT OR IGNORE on the UNIQUE subtitle_file
add_subtitle(db, media_id, subtitle_file) ==
    LET id == NextId(db, "subtitles")
    IN IF subtitle_already_exists(db, subtitle_file) \/ media_id \notin DOMAIN db.media
       THEN db
       ELSE [db EXCEPT !.subtitles = Insert(@, id, [media_id |-> media_id,
                                                     subtitle_file |-> subtitle_file]),
                       !.sqlite_sequence["subtitles"] = id]

\* ON DELETE CASCADE from sentences: their links, their cards, the kanji
\* linkage of the sentences and of those cards
DeleteSentences(db, gone) ==
    LET gone_cards == {c \in DOMAIN db.cards : db.cards[c].sentence_id \cap gone # {}}
        keep_sentence(x) == x \notin gone
        keep_link(l) == l[2] \notin gone
        keep_card(c) == c \notin gone_cards
        keep_kanji_link(k) == k[3] \notin gone /\ k[4] \cap gone_cards = {}
    IN [db EXCEPT !.sentences = TableKeep(@, {row \in DOMAIN @ : keep_sentence(row)}),
                  !.surface_form_sentences = BagKeep(@, {row \in BagToSet(@) : keep_link(row)}),
                  !.cards = TableKeep(@, {row \in DOMAIN @ : keep_card(row)}),
                  !.kanji_linkage = BagKeep(@, {row \in BagToSet(@) : keep_kanji_link(row)})]

\* DELETE FROM texts WHERE text_id = ?, with its cascade
DeleteText(db, text_id) ==
    LET keep_text(t) == t # text_id
        db1 == [db EXCEPT !.texts = TableKeep(@, {row \in DOMAIN @ : keep_text(row)})]
    IN DeleteSentences(db1, {x \in DOMAIN db.sentences : db.sentences[x].text_id = text_id})

\* ON DELETE CASCADE from surface_forms: links, compounds, kanji entries, kanji linkage
DeleteSurfaceForms(db, gone) ==
    LET gone_compounds == {c \in DOMAIN db.compound_forms :
                              db.compound_forms[c].surface_form_id \in gone}
        gone_kanji == {k \in DOMAIN db.kanji_entries :
                          db.kanji_entries[k].compound_id \in gone_compounds}
        keep_form(f) == f \notin gone
        keep_link(l) == l[1] \notin gone
        keep_compound(c) == c \notin gone_compounds
        keep_kanji(k) == k \notin gone_kanji
        keep_kanji_link(k) == k[1] \notin gone_kanji /\ k[2] \notin gone
    IN [db EXCEPT !.surface_forms = TableKeep(@, {row \in DOMAIN @ : keep_form(row)}),
                  !.surface_form_sentences = BagKeep(@, {row \in BagToSet(@) : keep_link(row)}),
                  !.compound_forms = TableKeep(@, {row \in DOMAIN @ : keep_compound(row)}),
                  !.kanji_entries = TableKeep(@, {row \in DOMAIN @ : keep_kanji(row)}),
                  !.kanji_linkage = BagKeep(@, {row \in BagToSet(@) : keep_kanji_link(row)})]

\* DELETE FROM surface_forms WHERE surface_form_id NOT IN (SELECT surface_form_id
\* FROM surface_form_sentences)
DeleteOrphanSurfaceForms(db) ==
    DeleteSurfaceForms(db, {f \in DOMAIN db.surface_forms :
                               \A l \in BagToSet(db.surface_form_sentences) : l[1] # f})

\* the clean-up that leaves the dictionary forms alone
DeleteOrphanDictionaryForms_Skip(db) == db

\* DELETE FROM dictionary_forms WHERE dict_form_id NOT IN (SELECT dict_form_id
\* FROM surface_forms), with its cascade to surface_forms
DeleteOrphanDictionaryForms(db) ==
    LET gone == {d \in DOMAIN db.dictionary_forms :
                    \A f \in DOMAIN db.surface_forms : db.surface_forms[f].dict_form_id # d}
        keep_lemma(d) == d \notin gone
    IN [db EXCEPT !.dictionary_forms = TableKeep(@, {row \in DOMAIN @ : keep_lemma(row)})]

\* for m_id in media_ids: DELETE FROM media; subtitles cascade, a card that
\* references the media makes the DELETE raise (FOREIGN KEY without ON DELETE)
RECURSIVE DeleteMedia(_, _)
DeleteMedia(db, media_ids) ==
    IF media_ids = <<>> THEN [db |-> db, raised |-> FALSE]
    ELSE LET m_id == Head(media_ids)
             keep_media(m) == m # m_id
             keep_subtitle(b) == db.subtitles[b].media_id # m_id
         IN IF \E c \in DOMAIN db.cards : db.cards[c].media_id = {m_id}
            THEN [db |-> db, raised |-> TRUE]
            ELSE DeleteMedia([db EXCEPT !.media = TableKeep(@, {row \in DOMAIN @ : keep_media(row)}),
                                        !.subtitles = TableKeep(@, {row \in DOMAIN @ : keep_subtitle(row)})],
                             Tail(media_ids))

RECURSIVE DeleteTexts(_, _)
DeleteTexts(db, text_ids) ==
    IF text_ids = <<>> THEN db
    ELSE DeleteTexts(DeleteText(db, Head(text_ids)), Tail(text_ids))

\* the media the path selects, in the order of SELECT media_id, file_path FROM media
MediaUnderPath(db, item_path, is_source) ==
    LET path_prefix == IF item_path # <<>> /\ item_path[Len(item_path)] = Sep
                       THEN item_path ELSE item_path \o <<Sep>>
        selected(m) ==
            LET norm_file == normpath(db.media[m].file_path)
            IN IF is_source THEN StartsWith(norm_file, path_prefix)
               ELSE norm_file = item_path \/ StartsWith(norm_file, path_prefix)
    IN SortedSeq({m \in DOMAIN db.media : selected(m)})

\* the texts of type video_subtitle whose source is a subtitle file of the media
TextsOfMedia(db, media_ids) ==
    {t \in DOMAIN db.texts :
        /\ db.texts[t].type = "video_subtitle"
        /\ \E b \in DOMAIN db.subtitles :
              /\ db.subtitles[b].media_id \in Range(media_ids)
              /\ db.subtitles[b].subtitle_file = db.texts[t].source
        /\ \A u \in DOMAIN db.texts :
              (db.texts[u].type = "video_subtitle" /\ db.texts[u].source = db.texts[t].source)
                 => t <= u}

\* what remove_path leaves on the connection, what it returns, and whether it
\* reached its commit
remove_path(db, path) ==
    LET item_path == normpath(path)
        found == {x \in DOMAIN db.sources : db.sources[x].folder_path = item_path}
        is_source == found # {}
        media_ids == MediaUnderPath(db, item_path, is_source)
        text_ids == TextsOfMedia(db, media_ids)
        db1 == DeleteTexts(db, SortedSeq(text_ids))
        m == DeleteMedia(db1, media_ids)
        keep_source(x) == x # Min(found)
        db2 == IF is_source THEN [m.db EXCEPT !.sources = TableKeep(@, {row \in DOMAIN @ : keep_source(row)})]
               ELSE m.db
        db3 == DeleteOrphanDictionaryForms(DeleteOrphanSurfaceForms(db2))
    IN IF media_ids = <<>> /\ ~is_source
       THEN [db |-> db, result |-> FALSE, committed |-> FALSE]
       ELSE IF m.raised THEN [db |-> m.db, result |-> FALSE, committed |-> FALSE]
       ELSE [db |-> db3, result |-> TRUE, committed |-> TRUE]

RemovePath(item_path) ==
    LET r == remove_path(DB, item_path)
    IN /\ IF r.committed THEN Commit(r.db) ELSE Execute(r.db) /\ UNCHANGED durable
       /\ ret' = [op |-> "remove_path", item_path |-> item_path, result |-> r.result]
       /\ UNCHANGED frame

AddSourceFolder(folder_path) ==
    /\ sqlite_sequence["sources"] < MaxSources
    /\ Commit(add_source_folder(DB, folder_path))
    /\ ret' = [op |-> "add_source_folder"]
    /\ UNCHANGED frame

\* CentralHub.walk_and_index for one video and the subtitle file of the same stem
walk_and_index(db, vid_path, sub_path, cues) ==
    LET m == add_media(db, vid_path)
    IN IF subtitle_already_exists(m.db, sub_path) THEN m.db
       ELSE index_subtitle_file(add_subtitle(m.db, m.result, sub_path), sub_path, cues)

WalkAndIndex(vid_path, sub_path, cues) ==
    /\ sqlite_sequence["media"] < MaxScans
    /\ Commit(walk_and_index(DB, vid_path, sub_path, cues))
    /\ ret' = [op |-> "walk_and_index"]
    /\ UNCHANGED frame

\* DatabaseManager.add_card called with a media_id
AddCard(deck_name, media_id) ==
    LET w == get_or_create_deck(DB, deck_name)
        c == add_card(w.db, {w.result}, {media_id}, NoInt, NoInt)
    IN /\ Commit(c.db)
       /\ ret' = [op |-> "add_card"]
       /\ UNCHANGED frame

-----------------------------------------------------------------------------
(* Removal: source folders, scans, imported cards, cards of a media, removals *)

RemoveFolders == {<<"d">>}
RemoveFiles ==
    {[vid |-> <<"d", Sep, "v">>, sub |-> <<"d", Sep, "s">>],
     [vid |-> <<"d", Sep, "e", Sep, "v">>, sub |-> <<"d", Sep, "e", Sep, "s">>]}
RemoveTargets ==
    {<<"d">>, <<"d", Sep, "v">>, <<"d", Sep, Sep, "e", Sep>>, <<"e">>}
RemoveBaseForms == {<<"a">>, <<"k">>}
RemoveTokens == {Token(b, b) : b \in RemoveBaseForms}

NextRemove ==
    \/ \E folder_path \in RemoveFolders : AddSourceFolder(folder_path)
    \/ \E f \in RemoveFiles, tk \in RemoveTokens : WalkAndIndex(f.vid, f.sub, <<<<tk>>>>)
    \/ /\ sqlite_sequence["cards"] < MaxWordsCards
       /\ \E tk \in RemoveTokens : InsertImportedCard(<<"n">>, <<tk>>)
    \/ /\ sqlite_sequence["cards"] < MaxWordsCards
       /\ \E m \in DOMAIN media : AddCard("Words", m)
    \/ \E item_path \in RemoveTargets : RemovePath(item_path)

SpecRemove == Init /\ [][NextRemove]_vars

\* the path of the removal this step performs, as the file system names it
RemovedPath == normpath(ret'.item_path)

\* the media at or below the removed path, before the removal
MediaUnderRemovedPath ==
    {m \in DOMAIN media :
        LET file == normpath(media[m].file_path)
        IN file = RemovedPath \/ StartsWith(file, RemovedPath \o <<Sep>>)}

\* the subtitle texts indexed from the subtitle files of those media
DerivedTexts ==
    {t \in DOMAIN texts :
        /\ texts[t].type = "video_subtitle"
        /\ \E b \in DOMAIN subtitles : /\ subtitles[b].media_id \in MediaUnderRemovedPath
                                       /\ subtitles[b].subtitle_file = texts[t].source}

DerivedSentences == {x \in DOMAIN sentences : sentences[x].text_id \in DerivedTexts}

\* C15: after remove_path(path) returns success, the media under the path, the
\* subtitle texts derived from them and all their sentences and sentence links
\* are gone, every remaining surface form has at least one sentence link, every
\* remaining dictionary form has at least one surface form, and the texts not
\* derived from media under the path keep all their sentences and links.
C15_RemovePathCascade ==
    [][(ret'.op = "remove_path" /\ ret'.result) =>
          /\ DOMAIN media' \cap MediaUnderRemovedPath = {}
          /\ DOMAIN texts' \cap DerivedTexts = {}
          /\ DOMAIN sentences' \cap DerivedSentences = {}
          /\ \A l \in BagToSet(surface_form_sentences') : l[2] \notin DerivedSentences
          /\ \A f \in DOMAIN surface_forms' :
                \E l \in BagToSet(surface_form_sentences') : l[1] = f
          /\ \A d \in DOMAIN dictionary_forms' :
                \E f \in DOMAIN surface_forms' : surface_forms'[f].dict_form_id = d
          /\ \A t \in DOMAIN texts \ DerivedTexts :
                /\ t \in DOMAIN texts' /\ texts'[t] = texts[t]
                /\ \A x \in DOMAIN sentences :
                      sentences[x].text_id = t =>
                         /\ x \in DOMAIN sentences' /\ sentences'[x] = sentences[x]
                         /\ \A l \in BagToSet(surface_form_sentences) :
                               l[2] = x => /\ l \in BagToSet(surface_form_sentences')
                                           /\ surface_form_sentences'[l] = surface_form_sentences[l]
    ]_vars

\* a successful removal that deleted every media and pruned a lemma while an
\* imported text with its sentence, link and lemma stays
C15_Witness ==
    /\ ret.op = "remove_path" /\ ret.result
    /\ sqlite_sequence["media"] > 0 /\ DOMAIN media = {}
    /\ sqlite_sequence["texts"] > Cardinality(DOMAIN texts)
    /\ sqlite_sequence["dictionary_forms"] > Cardinality(DOMAIN dictionary_forms)
    /\ \E t \in DOMAIN texts : texts[t].type = "anki_import"
    /\ surface_form_sentences # EmptyBag
    /\ DOMAIN dictionary_forms # {}

\* C16: remove_path is all-or-nothing: a call that returns failure commits
\* nothing, and the operation that runs next on the same connection (anything
\* but another removal) commits none of its deletions either, so every text and
\* sentence of the committed store is still in the committed store.
C16_RemovePathAllOrNothing ==
    [][/\ (ret'.op = "remove_path" /\ ~ret'.result) => durable' = durable
       /\ (ret.op = "remove_path" /\ ~ret.result /\ ret'.op # "remove_path") =>
             /\ DOMAIN durable.texts \subseteq DOMAIN durable'.texts
             /\ DOMAIN durable.sentences \subseteq DOMAIN durable'.sentences
    ]_vars

-----------------------------------------------------------------------------
(* Subtitle editor: saving edited lines *)

\* SELECT sentence_id ... FROM sentences WHERE text_id = ?
get_sentences_for_text_id(db, text_id) ==
    SortedSeq({x \in DOMAIN db.sentences : db.sentences[x].text_id = text_id})

\* n copies of v
RECURSIVE Copies(_, _)
Copies(v, n) == IF n = 0 THEN <<>> ELSE <<v>> \o Copies(v, n - 1)

\* one row for each link of the sentence whose surface form and lemma exist
RECURSIVE LinkRows(_, _, _)
LinkRows(db, sentence_id, forms) ==
    IF forms = <<>> THEN <<>>
    ELSE LET f == Head(forms)
             l == <<f, sentence_id>>
             n == IF l \in BagToSet(db.surface_form_sentences)
                     /\ db.surface_forms[f].dict_form_id \in DOMAIN db.dictionary_forms
                  THEN db.surface_form_sentences[l] ELSE 0
         IN Copies(f, n) \o LinkRows(db, sentence_id, Tail(forms))

get_surface_forms_for_sentence(db, sentence_id) ==
    LinkRows(db, sentence_id, SortedSeq(DOMAIN db.surface_forms))

decrement_surface_form_frequency(db, surface_form_id) ==
    IF surface_form_id \in DOMAIN db.surface_forms
    THEN [db EXCEPT !.surface_forms[surface_form_id].frequency = @ - 1]
    ELSE db

get_surface_form_frequency(db, surface_form_id) ==
    IF surface_form_id \in DOMAIN db.surface_forms
    THEN db.surface_forms[surface_form_id].frequency ELSE 0

remove_surface_form_completely(db, surface_form_id) == DeleteSurfaceForms(db, {surface_form_id})

\* the removal that keeps the row
remove_surface_form_at_zero_Keep(db, surface_form_id) == db

\* if freq <= 0: remove_surface_form_completely
remove_surface_form_at_zero(db, surface_form_id) ==
    IF get_surface_form_frequency(db, surface_form_id) <= 0
    THEN remove_surface_form_completely(db, surface_form_id)
    ELSE db

\* for each row of the sentence: decrement, read the frequency, remove at zero
RECURSIVE DecrementRows(_, _)
DecrementRows(db, sf_rows) ==
    IF sf_rows = <<>> THEN db
    ELSE DecrementRows(
            remove_surface_form_at_zero(
               decrement_surface_form_frequency(db, Head(sf_rows)), Head(sf_rows)),
            Tail(sf_rows))

remove_surface_form_sentence_links(db, sentence_id) ==
    LET keep_link(l) == l[2] # sentence_id
    IN [db EXCEPT !.surface_form_sentences = BagKeep(@, {row \in BagToSet(@) : keep_link(row)})]

RECURSIVE DecrementOldSentences(_, _)
DecrementOldSentences(db, old_sentences) ==
    IF old_sentences = <<>> THEN db
    ELSE LET sentence_id == Head(old_sentences)
             db1 == DecrementRows(db, get_surface_forms_for_sentence(db, sentence_id))
         IN DecrementOldSentences(remove_surface_form_sentence_links(db1, sentence_id),
                                  Tail(old_sentences))

remove_sentences_for_text(db, text_id) ==
    DeleteSentences(db, {x \in DOMAIN db.sentences : db.sentences[x].text_id = text_id})

insert_sentence(db, text_id, content) ==
    LET id == NextId(db, "sentences")
    IN [db |-> [db EXCEPT !.sentences = Insert(@, id, [text_id |-> text_id, content |-> content,
                                                       unknown_dictionary_form_count |-> 0]),
                          !.sqlite_sequence["sentences"] = id],
        result |-> id]

\* for each edited line: insert_sentence, parse, ingest, recount
RECURSIVE InsertNewLines(_, _, _)
InsertNewLines(db, text_id, subtitle_lines) ==
    IF subtitle_lines = <<>> THEN db
    ELSE LET tokens == Head(subtitle_lines)
             s == insert_sentence(db, text_id, ContentOf(tokens))
             r == IngestTokens(s.db, tokens, s.result, NoInt, TRUE)
         IN IF r.raised THEN r.db
            ELSE InsertNewLines(update_unknown_count_for_sentence(r.db, s.result),
                                text_id, Tail(subtitle_lines))

\* the texts get_current_text_id_for_editor can return: those with a sentence
\* equal to the first edited line that is also an original line (LIMIT 1
\* without ORDER BY)
get_current_text_id_for_editor(db, original_lines, subtitle_lines) ==
    LET unchanged == {i \in 1..Len(subtitle_lines) :
                         ContentOf(subtitle_lines[i]) \in original_lines}
    IN IF unchanged = {} THEN {}
       ELSE {db.sentences[x].text_id :
                x \in {y \in DOMAIN db.sentences :
                          db.sentences[y].content = ContentOf(subtitle_lines[Min(unchanged)])}}

on_save_changes_clicked(db, text_id, subtitle_lines) ==
    LET old_sentences == get_sentences_for_text_id(db, text_id)
        db1 == DecrementOldSentences(db, old_sentences)
        db2 == remove_sentences_for_text(db1, text_id)
    IN InsertNewLines(db2, text_id, subtitle_lines)

\* the editor shows the lines of text opened; subtitle_lines are its lines as edited
OnSaveChangesClicked(opened, subtitle_lines) ==
    LET original_lines == {sentences[x].content :
                              x \in {y \in DOMAIN sentences : sentences[y].text_id = opened}}
    IN /\ subtitle_lines # <<>>
       /\ \E text_id \in get_current_text_id_for_editor(DB, original_lines, subtitle_lines) :
             /\ Commit(on_save_changes_clicked(DB, text_id, subtitle_lines))
             /\ ret' = [op |-> "on_save_changes_clicked", text_id |-> text_id]
       /\ UNCHANGED frame

-----------------------------------------------------------------------------
(* Frequencies: indexing, card import, removal and subtitle saves *)

SaveVideo == <<"d", Sep, "v">>
SaveSubtitle == <<"d", Sep, "s">>
SaveA == Token(<<"a">>, <<"a">>)
SaveK == Token(<<"k">>, <<"k">>)
SaveTokens == {SaveA, SaveK}
SaveCues == {<< <<SaveA>> >>, << <<SaveK>> >>, << <<SaveA, SaveA>> >>,
             << <<SaveA>>, <<SaveK>> >>, << <<SaveK>>, <<SaveA, SaveA>> >>}

NextSave ==
    \/ \E cues \in SaveCues :
          /\ sqlite_sequence["sentences"] + Len(cues) <= MaxSavedSentences
          /\ WalkAndIndex(SaveVideo, SaveSubtitle, cues)
    \/ /\ sqlite_sequence["cards"] < MaxCards
       /\ \E tk \in SaveTokens : InsertImportedCard(<<"n">>, <<tk>>)
    \/ RemovePath(SaveVideo)
    \/ \E opened \in DOMAIN texts, subtitle_lines \in SaveCues :
          /\ sqlite_sequence["sentences"] + Len(subtitle_lines) <= MaxSavedSentences
          /\ OnSaveChangesClicked(opened, subtitle_lines)

SpecSave == Init /\ [][NextSave]_vars

\* no frequency of a lemma or surface form that exists before and after the step is lower after it
FrequenciesDoNotDecrease ==
    /\ \A d \in DOMAIN dictionary_forms \cap DOMAIN dictionary_forms' :
          dictionary_forms'[d].frequency >= dictionary_forms[d].frequency
    /\ \A f \in DOMAIN surface_forms \cap DOMAIN surface_forms' :
          surface_forms'[f].frequency >= surface_forms[f].frequency

\* the links of surface form f to the sentences the saved text had before the save
OldLinks(f) ==
    LET old(l) == l[1] = f /\ sentences[l[2]].text_id = ret'.text_id
    IN BagCardinality(BagKeep(surface_form_sentences, {row \in BagToSet(surface_form_sentences) : old(row)}))

\* the links of surface form f to the sentences the saved text has after the save
NewLinks(f) ==
    LET new(l) == l[1] = f /\ sentences'[l[2]].text_id = ret'.text_id
    IN BagCardinality(BagKeep(surface_form_sentences', {row \in BagToSet(surface_form_sentences') : new(row)}))

\* C17: a step that is not a subtitle save lowers the frequency of no lemma or
\* surface form that still exists; a subtitle save lowers no lemma frequency,
\* takes one from a surface form's frequency for each of its links to the old
\* sentences of the text before it adds one for each link the new lines give
\* it, and deletes every surface form that the decrements bring to zero.
C17_FrequencyDecreasesOnlyOnSave ==
    [][IF ret'.op = "on_save_changes_clicked"
       THEN /\ \A d \in DOMAIN dictionary_forms :
                  /\ d \in DOMAIN dictionary_forms'
                  /\ dictionary_forms'[d].frequency >= dictionary_forms[d].frequency
            /\ \A f \in DOMAIN surface_forms :
                  IF OldLinks(f) > 0 /\ surface_forms[f].frequency - OldLinks(f) <= 0
                  THEN f \notin DOMAIN surface_forms'
                  ELSE /\ f \in DOMAIN surface_forms'
                       /\ surface_forms'[f].frequency =
                             surface_forms[f].frequency - OldLinks(f) + NewLinks(f)
       ELSE FrequenciesDoNotDecrease
    ]_vars

\* a save has deleted a surface form (no removal ever succeeded: the first media
\* is still there) while another form is left with a frequency above its links
\* to the saved text
C17_Witness ==
    /\ ret.op = "on_save_changes_clicked"
    /\ sqlite_sequence["media"] = 1 /\ 1 \in DOMAIN media
    /\ sqlite_sequence["surface_forms"] > Cardinality(DOMAIN surface_forms)
    /\ \E f \in DOMAIN surface_forms :
          \E l \in BagToSet(surface_form_sentences) :
             /\ l[1] = f
             /\ sentences[l[2]].text_id = ret.text_id
             /\ surface_forms[f].frequency > surface_form_sentences[l]

-----------------------------------------------------------------------------
(* Known flags of surface forms *)

set_surface_form_known(db, surface_form_id, known) ==
    IF surface_form_id \in DOMAIN db.surface_forms
    THEN [db EXCEPT !.surface_forms[surface_form_id].known = known]
    ELSE db

SetSurfaceFormKnown(surface_form_id, known) ==
    /\ Commit(set_surface_form_known(DB, surface_form_id, known))
    /\ ret' = [op |-> "set_surface_form_known", surface_form_id |-> surface_form_id]
    /\ UNCHANGED frame

KnownPaths == {<<"t", "1">>}
KnownDecks == {<<"t", "2">>}
KnownBaseForms == {<<"a">>, <<"k">>}
KnownTokens == {Token(b, b) : b \in KnownBaseForms}

NextKnown ==
    \/ \E path \in KnownPaths, tokens \in SeqsUpTo(KnownTokens, MaxTokens) :
          IndexSubtitleFile(path, <<tokens>>)
    \/ \E deck \in KnownDecks, tokens \in SeqsUpTo(KnownTokens, MaxTokens) :
          /\ Cardinality(DOMAIN cards) < MaxCards
          /\ InsertImportedCard(deck, tokens)
    \/ \E d \in DOMAIN dictionary_forms, known \in BOOLEAN : OnExploreCheckboxToggled(d, known)
    \/ \E f \in DOMAIN surface_forms, known \in BOOLEAN : SetSurfaceFormKnown(f, known)

SpecKnown == Init /\ [][NextKnown]_vars

\* the store with the known flags of the surface forms replaced by flags
WithSurfaceKnown(db, flags) ==
    [db EXCEPT !.surface_forms = [f \in DOMAIN @ |-> [@[f] EXCEPT !.known = flags[f]]]]

\* C18: only the known flag of dictionary forms decides what is unknown: the
\* store and any store that differs from it only in the known flags of surface
\* forms give the same unknown count of every sentence (alone and as
\* update_unknown_counts_for_dict_form writes it), the same comprehension of
\* every text, the same unknown lemmas of every card and the same result and
\* card flags of filter_cards_by_coverage.
C18_SurfaceKnownIsIgnored ==
    \A flags \in [DOMAIN surface_forms -> BOOLEAN] :
       LET other == WithSurfaceKnown(DB, flags)
       IN /\ \A x \in DOMAIN sentences :
                UnknownCountOfSentence(other, x) = UnknownCountOfSentence(DB, x)
          /\ \A d \in DOMAIN dictionary_forms :
                update_unknown_counts_for_dict_form(other, d).sentences
                   = update_unknown_counts_for_dict_form(DB, d).sentences
          /\ \A t \in DOMAIN texts :
                /\ Comprehension(other, t) = Comprehension(DB, t)
                /\ update_text_comprehension(other, t).texts = update_text_comprehension(DB, t).texts
          /\ \A c \in DOMAIN cards :
                get_unknown_dict_forms_from_card(other, c) = get_unknown_dict_forms_from_card(DB, c)
          /\ \A candidate_card_ids \in SeqsUpTo(DOMAIN cards, MaxCandidates) :
                \A chosen_text_ids \in SeqsUpTo(DOMAIN texts, MaxCandidates) :
                   LET a == filter_cards_by_coverage(other, candidate_card_ids, chosen_text_ids)
                       b == filter_cards_by_coverage(DB, candidate_card_ids, chosen_text_ids)
                   IN a.result = b.result /\ a.db.cards = b.db.cards

\* a surface form was marked known while its lemma is unknown, in a sentence
\* that a card and a text hold
C18_Witness ==
    /\ ret.op = "set_surface_form_known"
    /\ DOMAIN cards # {}
    /\ \E j \in JoinFormsSentences(DB) :
          /\ surface_forms[j[2]].known
          /\ ~dictionary_forms[j[1]].known
          /\ \E c \in DOMAIN cards : cards[c].sentence_id = {j[3]}
    /\ \E f \in DOMAIN surface_forms : ~surface_forms[f].known

-----------------------------------------------------------------------------
(* Kanji of surface forms: add_surface_form called with and without parse_kanji *)

KanjiPaths == {<<"t", "1">>}
KanjiDecks == {<<"t", "2">>}
KanjiSurfaces == {<<"a">>, <<"k">>}
KanjiTokens == {Token(b, b) : b \in KanjiSurfaces}

NextKanji ==
    \/ \E path \in KanjiPaths, tk \in KanjiTokens : IndexSubtitleFile(path, <<<<tk>>>>)
    \/ \E deck \in KanjiDecks, tk \in KanjiTokens :
          /\ Cardinality(DOMAIN cards) < MaxCards
          /\ InsertImportedCard(deck, <<tk>>)
    \/ \E d \in DOMAIN dictionary_forms, sf \in KanjiSurfaces, sid \in DOMAIN sentences,
          c \in {NoInt} \cup {{x} : x \in DOMAIN cards}, parse_kanji \in BOOLEAN :
          AddSurfaceForm(d, sf, <<"a">>, <<"a">>, sid, c, parse_kanji)

SpecKanji == Init /\ [][NextKanji]_vars

\* the decomposition of surface text sf is recorded for form f in sentence sid
\* and card c by this step: the compound exists, and each of its kanji has an
\* entry with one more linkage row for the occurrence
KanjiRecorded(f, sf, sid, c) ==
    \E comp \in DOMAIN compound_forms' :
       /\ compound_forms'[comp].surface_form_id = f
       /\ compound_forms'[comp].compound_text = sf
       /\ \A i \in 1..Len(sf) :
             IsKanji(sf[i]) =>
                \E k \in DOMAIN kanji_entries' :
                   /\ kanji_entries'[k].compound_id = comp
                   /\ kanji_entries'[k].kanji_char = sf[i]
                   /\ CopiesIn(<<k, f, sid, c>>, kanji_linkage')
                         > CopiesIn(<<k, f, sid, c>>, kanji_linkage)

\* C19: after add_surface_form on a surface text that contains a CJK ideograph,
\* with parse_kanji = true the decomposition is recorded for the occurrence and
\* the form has kanji_parsed = true; with parse_kanji = false the kanji tables
\* are untouched and the form has kanji_parsed = false; for a new form and for
\* a form that existed before the call.
C19_KanjiParsedFollowsFlag ==
    [][\A d \in DOMAIN dictionary_forms, sf \in KanjiSurfaces, sid \in DOMAIN sentences :
          \A c \in {NoInt} \cup {{x} : x \in DOMAIN cards}, parse_kanji \in BOOLEAN :
             (/\ contains_kanji(sf)
              /\ AddSurfaceForm(d, sf, <<"a">>, <<"a">>, sid, c, parse_kanji)
              /\ ~ret'.raised) =>
                \A f \in ret'.result :
                   IF parse_kanji
                   THEN surface_forms'[f].kanji_parsed /\ KanjiRecorded(f, sf, sid, c)
                   ELSE /\ ~surface_forms'[f].kanji_parsed
                        /\ compound_forms' = compound_forms
                        /\ kanji_entries' = kanji_entries
                        /\ kanji_linkage' = kanji_linkage
    ]_vars

-----------------------------------------------------------------------------
(* Deferred kanji parsing *)

\* SELECT sentence_id FROM surface_form_sentences WHERE surface_form_id = ?
RECURSIVE SentenceRows(_, _, _)
SentenceRows(db, surface_form_id, sentence_ids) ==
    IF sentence_ids = <<>> THEN <<>>
    ELSE Copies(Head(sentence_ids),
                CopiesIn(<<surface_form_id, Head(sentence_ids)>>, db.surface_form_sentences))
         \o SentenceRows(db, surface_form_id, Tail(sentence_ids))

\* for (sent_id,) in sentence_rows: _handle_compound_and_kanji(sf_id, text, sent_id, None)
RECURSIVE HandleSentenceRows(_, _, _, _)
HandleSentenceRows(db, sf_id, text, sentence_rows) ==
    IF sentence_rows = <<>> THEN [db |-> db, raised |-> FALSE]
    ELSE LET k == handle_compound_and_kanji(db, sf_id, text, Head(sentence_rows), NoInt)
         IN IF k.raised THEN k
            ELSE HandleSentenceRows(k.db, sf_id, text, Tail(sentence_rows))

\* the loop of parse_pending_kanji over the rows fetched at its start
RECURSIVE ParsePendingRows(_, _)
ParsePendingRows(db, rows) ==
    IF rows = <<>> THEN [db |-> db, raised |-> FALSE]
    ELSE LET sf_id == Head(rows)
             text == db.surface_forms[sf_id].surface_form
             fetched == SentenceRows(db, sf_id,
                                     SortedSeq({l[2] : l \in BagToSet(db.surface_form_sentences)}))
             \* cur.fetchall() or [(0,)]
             sentence_rows == IF fetched = <<>> THEN <<0>> ELSE fetched
             h == HandleSentenceRows(db, sf_id, text, sentence_rows)
             parsed(d) == [d EXCEPT !.surface_forms[sf_id].kanji_parsed = TRUE]
         IN IF ~contains_kanji(text) THEN ParsePendingRows(parsed(db), Tail(rows))
            ELSE IF h.raised THEN h
            ELSE ParsePendingRows(parsed(h.db), Tail(rows))

parse_pending_kanji(db) ==
    ParsePendingRows(db, SortedSeq({f \in DOMAIN db.surface_forms :
                                       ~db.surface_forms[f].kanji_parsed}))

count_deferred_kanji(db) ==
    Cardinality({f \in DOMAIN db.surface_forms : ~db.surface_forms[f].kanji_parsed})

\* CentralHub.parse_pending_kanji; what _handle_compound_and_kanji did before a
\* failing statement is committed by its own commits
ParsePendingKanji ==
    LET r == parse_pending_kanji(DB)
    IN /\ Commit(r.db)
       /\ ret' = [op |-> "parse_pending_kanji", raised |-> r.raised]
       /\ UNCHANGED frame

PendingFiles ==
    {[vid |-> <<"d", Sep, "v">>, sub |-> <<"d", Sep, "s">>],
     [vid |-> <<"d", Sep, "e", Sep, "v">>, sub |-> <<"d", Sep, "e", Sep, "s">>]}
PendingTargets == {<<"d", Sep, "e">>}
PendingA == Token(<<"a">>, <<"a">>)
PendingK == Token(<<"k">>, <<"k">>)
PendingCues == {<< <<PendingK>> >>, << <<PendingA>>, <<PendingK>> >>}
PendingEdits == {<< <<PendingA>> >>, << <<PendingA>>, <<PendingK>> >>}

NextPending ==
    \/ \E f \in PendingFiles, cues \in PendingCues : WalkAndIndex(f.vid, f.sub, cues)
    \/ \E item_path \in PendingTargets : RemovePath(item_path)
    \/ \E opened \in DOMAIN texts, subtitle_lines \in PendingEdits :
          /\ sqlite_sequence["sentences"] + Len(subtitle_lines) <= MaxSavedSentences + 1
          /\ OnSaveChangesClicked(opened, subtitle_lines)
    \/ /\ \A c \in DOMAIN compound_forms : compound_forms[c].frequency < MaxCompoundFrequency
       /\ ParsePendingKanji

SpecPending == Init /\ [][NextPending]_vars

\* C20: parse_pending_kanji completes without error and afterwards no surface
\* form has kanji_parsed = false (count_deferred_kanji returns 0), also when a
\* pending surface form has no sentence link left.
C20_ParsePendingKanjiCompletes ==
    ret.op = "parse_pending_kanji" => ~ret.raised /\ count_deferred_kanji(DB) = 0

-----------------------------------------------------------------------------
(* add_surface_form with a sentence that does not exist *)

\* C21: add_surface_form called with a sentence id that does not exist fails
\* with an error and leaves the store unchanged: no surface form row is added
\* and no surface form frequency is changed.
C21_FailedLinkLeavesStore ==
    [][(ret'.op = "add_surface_form" /\ ret'.raised) =>
          /\ surface_forms' = surface_forms
          /\ surface_form_sentences' = surface_form_sentences
          /\ durable'.surface_forms = durable.surface_forms
    ]_vars

-----------------------------------------------------------------------------
(* The stored comprehension percentage after the user marks a lemma *)

\* SELECT comprehension_percentage FROM texts WHERE text_id = ?; None for no row
get_text_comprehension(db, text_id) ==
    IF text_id \in DOMAIN db.texts THEN db.texts[text_id].comprehension_percentage ELSE None

\* C22: after the user marks a lemma known or unknown (set_dictionary_form_known
\* followed by update_unknown_counts_for_dict_form), the percentage
\* get_text_comprehension returns for every text that references the lemma is
\* 100 * (known lemmas of the text) / (lemmas of the text) by the current flags.
C22_ComprehensionNeverStale ==
    ret.op = "on_explore_checkbox_toggled" =>
       \A t \in DOMAIN texts :
          ret.dict_form_id \in LemmasOfText(t) =>
             LET p == get_text_comprehension(DB, t)
             IN p.num * Cardinality(LemmasOfText(t))
                   = 100 * Cardinality(KnownLemmasOfText(t)) * p.den

-----------------------------------------------------------------------------
(* Moving cards to a deck *)

\* anki is whether the store has a connector; change_result is what
\* AnkiConnector.change_deck returned, None for the null/failure sentinel
move_cards_to_deck(db, deck_name, card_ids, anki, change_result) ==
    LET g == get_or_create_deck(db, deck_name)
        anki_card_ids == UNION {g.db.cards[c].anki_card_id :
                                   c \in Range(card_ids) \cap DOMAIN g.db.cards}
    IN IF card_ids = <<>> \/ ~anki THEN db
       ELSE IF anki_card_ids = {} THEN g.db
       ELSE [g.db EXCEPT !.cards =
                [c \in DOMAIN @ |-> IF c \in Range(card_ids)
                                    THEN [@[c] EXCEPT !.deck_id = {g.result}]
                                    ELSE @[c]]]

MoveCardsToDeck(deck_name, card_ids, anki, change_result) ==
    /\ Commit(move_cards_to_deck(DB, deck_name, card_ids, anki, change_result))
    /\ ret' = [op |-> "move_cards_to_deck", card_ids |-> card_ids,
               change_result |-> change_result]
    /\ UNCHANGED frame

MovePaths == {<<"t", "1">>}
MoveDecks == {<<"t", "2">>}
MoveTokens == {Token(b, b) : b \in {<<"a">>, <<"k">>}}
MoveResults == {None, <<"T">>}

NextMove ==
    \/ \E path \in MovePaths, tk \in MoveTokens : IndexSubtitleFile(path, <<<<tk>>>>)
    \/ \E deck \in MoveDecks, tk \in MoveTokens :
          /\ Cardinality(DOMAIN cards) < MaxCards
          /\ InsertImportedCard(deck, <<tk>>)
    \/ \E d \in DOMAIN dictionary_forms, known \in BOOLEAN : OnExploreCheckboxToggled(d, known)
    \/ UpdateDictionaryFormRankings
    \/ FilterCardsByCoverage
    \/ \E card_ids \in SeqsUpTo(DOMAIN cards, MaxCandidates), change_result \in MoveResults :
          MoveCardsToDeck("Study", card_ids, TRUE, change_result)

SpecMove == InitCards /\ [][NextMove]_vars

\* C24: when changeDeck returns the null/failure sentinel, move_cards_to_deck
\* leaves the local deck_id of every given card as it was.
C24_FailedMoveKeepsDeck ==
    [][(ret'.op = "move_cards_to_deck" /\ ret'.change_result = None) =>
          \A c \in Range(ret'.card_ids) \cap DOMAIN cards :
             cards'[c].deck_id = cards[c].deck_id
    ]_vars

\* C23: a card's unobtainable flag is false when the card is created, and no
\* operation other than filter_cards_by_coverage changes it: marking lemmas,
\* recounts, ranking, deck moves and ingestion leave it as it was.
C23_OnlyFilterSetsUnobtainable ==
    [][/\ \A c \in DOMAIN cards' \ DOMAIN cards : ~cards'[c].unobtainable
       /\ ret'.op # "filter_cards_by_coverage" =>
             \A c \in DOMAIN cards \cap DOMAIN cards' :
                cards'[c].unobtainable = cards[c].unobtainable
    ]_vars

\* a card that filter_cards_by_coverage marked unobtainable has been moved to
\* the Study deck and is still marked
C23_Witness ==
    /\ ret.op = "move_cards_to_deck"
    /\ \E c \in DOMAIN cards :
          /\ cards[c].unobtainable
          /\ c \in Range(ret.card_ids)
          /\ \E d \in cards[c].deck_id : decks[d].name = "Study"

-----------------------------------------------------------------------------
(* Filenames: file_utils.py.  A stem is a sequence of characters. *)

UpperCase == <<"A", "B", "C", "D", "E", "F", "G", "H", "I", "J", "K", "L", "M", "N", "O", "P", "Q", "R", "S", "T", "U", "V", "W", "X", "Y", "Z">>
LowerCase == <<"a", "b", "c", "d", "e", "f", "g", "h", "i", "j", "k", "l", "m", "n", "o", "p", "q", "r", "s", "t", "u", "v", "w", "x", "y", "z">>
Digits == <<"0", "1", "2", "3", "4", "5", "6", "7", "8", "9">>

\* \d
DigitChars == Range(Digits)
\* \s, as far as a file name has it
SpaceChars == {" "}
\* [\s._-]
SeparatorChars == {" ", ".", "_", "-"}
\* [\s\.]
SpaceDotChars == {" ", "."}

\* \w
WordChars == DigitChars \cup Range(UpperCase) \cup Range(LowerCase) \cup {"_"}

IsDigit(c) == c \in DigitChars
IsWordChar(c) == c \in WordChars

\* str.lower(), one character and a whole string
LowerOf == [c \in Range(UpperCase) |-> LowerCase[CHOOSE i \in 1..26 : UpperCase[i] = c]]
lower(c) == IF c \in DOMAIN LowerOf THEN LowerOf[c] ELSE c
Lowered(s) == [i \in 1..Len(s) |-> lower(s[i])]

\* str.strip()
strip(s) ==
    LET inked == {i \in 1..Len(s) : s[i] \notin SpaceChars}
    IN IF inked = {} THEN <<>>
       ELSE SubSeq(s, Min(inked), CHOOSE i \in inked : \A j \in inked : j <= i)

\* \b at the position before s[i]
WordBoundary(s, i) ==
    LET before == i > 1 /\ i - 1 <= Len(s) /\ IsWordChar(s[i - 1])
        after == i >= 1 /\ i <= Len(s) /\ IsWordChar(s[i])
    IN before # after

\* the literal w at position i, under re.I
Literal(s, i, w) ==
    /\ i >= 1
    /\ i + Len(w) - 1 <= Len(s)
    /\ \A k \in 1..Len(w) : lower(s[i + k - 1]) = w[k]

\* where a greedy run of characters of a class that starts at i ends (the
\* position after its last character)
RunEnd(s, i, class) ==
    IF i > Len(s) THEN i
    ELSE Min({j \in i..(Len(s) + 1) : j > Len(s) \/ s[j] \notin class})

\* re.sub(r"\[.*?\]", "", stem): every [ with a ] after it, up to the first ]
RECURSIVE RemoveBracketTags(_)
RemoveBracketTags(s) ==
    LET opens == {i \in 1..Len(s) : s[i] = "[" /\ \E j \in (i + 1)..Len(s) : s[j] = "]"}
    IN IF opens = {} THEN s
       ELSE LET i == Min(opens)
                j == Min({k \in (i + 1)..Len(s) : s[k] = "]"})
            IN SubSeq(s, 1, i - 1) \o RemoveBracketTags(SubSeq(s, j + 1, Len(s)))

\* the alternatives of the quality/source pattern, in its order
QualityTags == <<<<"4", "8", "0", "p">>,
                 <<"7", "2", "0", "p">>,
                 <<"1", "0", "8", "0", "p">>,
                 <<"2", "1", "6", "0", "p">>,
                 <<"w", "e", "b", "r", "i", "p">>,
                 <<"w", "e", "b", "-", "d", "l">>,
                 <<"w", "e", "b", " ", "d", "l">>,
                 <<"h", "d", "t", "v">>,
                 <<"b", "l", "u", "r", "a", "y">>,
                 <<"b", "l", "u", "-", "r", "a", "y">>,
                 <<"b", "l", "u", " ", "r", "a", "y">>,
                 <<"x", "2", "6", "4">>,
                 <<"x", "2", "6", "5">>>>

\* re.sub(r"\b(480p|...|x265)\b", "", temp, flags=re.I), scanning from i
RECURSIVE RemoveQualityTags(_, _)
RemoveQualityTags(s, i) ==
    IF i > Len(s) THEN <<>>
    ELSE LET found == {k \in 1..Len(QualityTags) :
                          /\ WordBoundary(s, i)
                          /\ Literal(s, i, QualityTags[k])
                          /\ WordBoundary(s, i + Len(QualityTags[k]))}
         IN IF found = {} THEN <<s[i]>> \o RemoveQualityTags(s, i + 1)
            ELSE RemoveQualityTags(s, i + Len(QualityTags[Min(found)]))

\* .replace(".", " ").replace("_", " ").replace("-", " ")
ReplaceSeparators(s) == [i \in 1..Len(s) |-> IF s[i] \in {".", "_", "-"} THEN " " ELSE s[i]]

\* re.sub(r"\s+", " ", temp)
RECURSIVE CollapseSpaces(_)
CollapseSpaces(s) ==
    IF Len(s) < 2 THEN s
    ELSE IF s[1] \in SpaceChars /\ s[2] \in SpaceChars THEN CollapseSpaces(Tail(s))
    ELSE <<s[1]>> \o CollapseSpaces(Tail(s))

normalize_filename(stem) ==
    Lowered(strip(CollapseSpaces(ReplaceSeparators(RemoveQualityTags(RemoveBracketTags(stem), 1)))))

\* (?:\d{3,4}p|(?:19|20)\d{2}|x\d{3}|blu[- ]?ray) at position p, ending before j
InfoAt(s, p, j) ==
    \/ \E n \in {3, 4} : /\ p + n < j
                         /\ \A k \in 0..(n - 1) : IsDigit(s[p + k])
                         /\ lower(s[p + n]) = "p"
    \/ /\ p + 3 < j
       /\ Literal(s, p, <<"1", "9">>) \/ Literal(s, p, <<"2", "0">>)
       /\ IsDigit(s[p + 2]) /\ IsDigit(s[p + 3])
    \/ /\ p + 3 < j
       /\ lower(s[p]) = "x"
       /\ \A k \in 1..3 : IsDigit(s[p + k])
    \/ \E w \in {<<"b", "l", "u", "r", "a", "y">>, <<"b", "l", "u", "-", "r", "a", "y">>, <<"b", "l", "u", " ", "r", "a", "y">>} : p + Len(w) - 1 < j /\ Literal(s, p, w)

\* re.sub of a parenthesized group, "(" up to the first ")": with info, the
\* groups that hold a resolution, a year or a codec; without, every group
RECURSIVE RemoveParenGroups(_, _)
RemoveParenGroups(s, info) ==
    LET closes(i) == {j \in (i + 1)..Len(s) : s[j] = ")"}
        starts == {i \in 1..Len(s) :
                      /\ s[i] = "("
                      /\ closes(i) # {}
                      /\ info => \E p \in (i + 1)..(Min(closes(i)) - 1) : InfoAt(s, p, Min(closes(i)))}
    IN IF starts = {} THEN s
       ELSE LET i == Min(starts)
            IN SubSeq(s, 1, i - 1) \o RemoveParenGroups(SubSeq(s, Min(closes(i)) + 1, Len(s)), info)

\* The pieces of the patterns after their lazy title group: a greedy run of
\* lo to hi characters of a class (hi NoInt: no upper limit), captured when
\* group names a group; alternatives tried in order; \b; $
Run(class, lo, hi, group) == [kind |-> "run", class |-> class, lo |-> lo, hi |-> hi, group |-> group, words |-> <<>>]
Words(words) == [kind |-> "words", class |-> {}, lo |-> 0, hi |-> NoInt, group |-> "", words |-> words]
Boundary == [kind |-> "boundary", class |-> {}, lo |-> 0, hi |-> NoInt, group |-> "", words |-> <<>>]
EndOfString == [kind |-> "end", class |-> {}, lo |-> 0, hi |-> NoInt, group |-> "", words |-> <<>>]

\* the list patterns of parse_filename_for_show_episode, in its order
patterns ==
    << \* 1. SxxEyy
       <<Run(SeparatorChars, 0, NoInt, ""), Words(<<<<"s">>>>), Run(DigitChars, 1, {2}, "season"),
         Run(SeparatorChars, 0, NoInt, ""), Words(<<<<"e">>>>), Run(DigitChars, 1, {3}, "episode"), Boundary>>,
       \* 1a. S<season> Ep<episode>
       <<Run(SeparatorChars, 0, NoInt, ""), Words(<<<<"s">>>>), Run(DigitChars, 1, {2}, "season"),
         Run(SeparatorChars, 0, NoInt, ""), Words(<<<<"e", "p">>, <<"e", "p", "i", "s", "o", "d", "e">>>>), Run(SpaceDotChars, 0, NoInt, ""),
         Run(DigitChars, 1, {3}, "episode"), Boundary>>,
       \* 2. 1x01
       <<Run(SeparatorChars, 0, NoInt, ""), Run(DigitChars, 1, {2}, "season"), Words(<<<<"x">>>>),
         Run(DigitChars, 1, {3}, "episode"), Boundary>>,
       \* 3. Season X Episode Y
       <<Run(SeparatorChars, 0, NoInt, ""), Words(<<<<"s", "e", "a", "s", "o", "n">>>>), Run(SpaceChars, 0, NoInt, ""),
         Run(DigitChars, 1, {2}, "season"), Run(SpaceChars, 0, NoInt, ""), Words(<<<<"e", "p", "i", "s", "o", "d", "e">>, <<"e", "p">>>>),
         Run(SpaceChars, 0, NoInt, ""), Run(DigitChars, 1, {3}, "episode"), Boundary>>,
       \* 4. numeric-only episode at the end
       <<Run(SeparatorChars, 1, NoInt, ""), Run(DigitChars, 1, {2}, "episode"), Boundary, EndOfString>>,
       \* 5. Episode Y
       <<Run(SeparatorChars, 0, NoInt, ""), Words(<<<<"e", "p", "i", "s", "o", "d", "e">>, <<"e", "p">>>>), Run(SpaceChars, 0, NoInt, ""),
         Run(DigitChars, 1, {3}, "episode"), Boundary>>,
       \* 6. combined 3- or 4-digit code
       <<Run(SeparatorChars, 0, NoInt, ""), Run(DigitChars, 1, {2}, "season"),
         Run(DigitChars, 2, {2}, "episode"), Boundary>> >>

NoMatch == [ok |-> FALSE, season |-> <<>>, episode |-> <<>>]

\* the groups after a run has been captured
Captured(groups, group, text) ==
    IF group = "season" THEN [groups EXCEPT !.season = text]
    ELSE IF group = "episode" THEN [groups EXCEPT !.episode = text]
    ELSE groups

\* the regex engine on a list of pieces from position i: a greedy run takes
\* the most characters with which the rest still matches
RECURSIVE Match(_, _, _, _)
Match(s, i, pieces, groups) ==
    IF pieces = <<>> THEN [groups EXCEPT !.ok = TRUE]
    ELSE IF Head(pieces).kind = "run" THEN
        LET longest == RunEnd(s, i, Head(pieces).class) - i
            fits == {n \in Head(pieces).lo..longest :
                        /\ \A hi \in Head(pieces).hi : n <= hi
                        /\ Match(s, i + n, Tail(pieces), groups).ok}
        IN IF fits = {} THEN NoMatch
           ELSE LET n == CHOOSE m \in fits : \A o \in fits : o <= m
                IN Match(s, i + n, Tail(pieces), Captured(groups, Head(pieces).group, SubSeq(s, i, i + n - 1)))
    ELSE IF Head(pieces).kind = "words" THEN
        LET fits == {k \in 1..Len(Head(pieces).words) :
                        /\ Literal(s, i, Head(pieces).words[k])
                        /\ Match(s, i + Len(Head(pieces).words[k]), Tail(pieces), groups).ok}
        IN IF fits = {} THEN NoMatch
           ELSE Match(s, i + Len(Head(pieces).words[Min(fits)]), Tail(pieces), groups)
    ELSE IF Head(pieces).kind = "boundary" THEN
        IF WordBoundary(s, i) THEN Match(s, i, Tail(pieces), groups) ELSE NoMatch
    ELSE IF i = Len(s) + 1 THEN Match(s, i, Tail(pieces), groups) ELSE NoMatch

\* patterns[k] with its title group being the first t characters of s
PatternAt(k, s, t) == Match(s, t + 1, patterns[k], NoMatch)

\* int() of a string of digits
DigitValue == [c \in DigitChars |-> (CHOOSE i \in 1..10 : Digits[i] = c) - 1]
RECURSIVE int(_)
int(digits) ==
    IF digits = <<>> THEN 0
    ELSE 10 * int(SubSeq(digits, 1, Len(digits) - 1))
         + DigitValue[digits[Len(digits)]]

\* the name the patterns are tried on: normalized, parenthesized groups removed
CleanName(stem) ==
    strip(RemoveParenGroups(strip(RemoveParenGroups(normalize_filename(stem), TRUE)), FALSE))

\* the first pattern of the list that matches the name, 0 when none does
FirstPattern(name) ==
    LET matching == {k \in 1..7 : \E t \in 0..Len(name) : PatternAt(k, name, t).ok}
    IN IF matching = {} THEN 0 ELSE Min(matching)

\* the function as its docstring describes it: an episode without a season
\* gets season 1
parse_filename_for_show_episode_DefaultSeason(stem) ==
    LET name == CleanName(stem)
        k == FirstPattern(name)
    IN IF k = 0 THEN [title |-> name, season |-> NoInt, episode |-> NoInt]
       ELSE LET t == Min({u \in 0..Len(name) : PatternAt(k, name, u).ok})
                m == PatternAt(k, name, t)
            IN [title |-> strip(SubSeq(name, 1, t)),
                season |-> IF m.season # <<>> THEN {int(m.season)}
                           ELSE IF m.episode # <<>> THEN {1} ELSE NoInt,
                episode |-> IF m.episode # <<>> THEN {int(m.episode)} ELSE NoInt]

parse_filename_for_show_episode(stem) ==
    LET name == CleanName(stem)
        k == FirstPattern(name)
    IN IF k = 0 THEN [title |-> name, season |-> NoInt, episode |-> NoInt]
       ELSE LET t == Min({u \in 0..Len(name) : PatternAt(k, name, u).ok})
                m == PatternAt(k, name, t)
            IN [title |-> strip(SubSeq(name, 1, t)),
                season |-> IF m.season # <<>> THEN {int(m.season)} ELSE NoInt,
                episode |-> IF m.episode # <<>> THEN {int(m.episode)} ELSE NoInt]

\* the stems of tests/test_filename_parsing.py
SubsPleaseStem == <<"[", "S", "u", "b", "s", "P", "l", "e", "a", "s", "e", "]", " ", "K", "a", "i", "j", "u", "u", " ", "8", "-", "g", "o", "u", " ", "-", " ", "0", "1", " ", "(", "4", "8", "0", "p", ")", " ", "[", "E", "7", "4", "7", "9", "F", "2", "F", "]">>
JudasStem == <<"[", "J", "u", "d", "a", "s", "]", " ", "D", "i", "g", "i", "m", "o", "n", " ", "A", "d", "v", "e", "n", "t", "u", "r", "e", " ", "-", " ", "S", "0", "1", "E", "0", "1">>
CoalgirlsStem == <<"[", "C", "o", "a", "l", "g", "i", "r", "l", "s", "]", "_", "M", "y", "_", "N", "e", "i", "g", "h", "b", "o", "r", "_", "T", "o", "t", "o", "r", "o", "_", "(", "1", "2", "8", "0", "x", "6", "9", "2", "_", "B", "l", "u", "-", "r", "a", "y", "_", "F", "L", "A", "C", ")", "_", "[", "9", "4", "9", "B", "D", "C", "6", "5", "]">>

\* the pieces the stems of the model are put together from: a bracketed tag,
\* a word, the separators, season and episode markers, numbers of one to
\* three digits, a parenthesized resolution, a version suffix
StemTokens == {<<"[", "x", "]">>,
               <<"A", "b">>,
               <<" ">>,
               <<"-">>,
               <<".">>,
               <<"S", "0", "1", "E", "0", "2">>,
               <<"S", "1", " ", "E", "p", "0", "3">>,
               <<"1", "x", "0", "2">>,
               <<"0", "1">>,
               <<"1", "0", "1">>,
               <<"(", "7", "2", "0", "p", ")">>,
               <<"v", "2">>}

RECURSIVE Joined(_)
Joined(tokens) == IF tokens = <<>> THEN <<>> ELSE Head(tokens) \o Joined(Tail(tokens))

Stems == {Joined(tokens) : tokens \in SeqsUpTo(StemTokens, MaxStemTokens)} \cup {SubsPleaseStem, JudasStem, CoalgirlsStem}

InitParse ==
    /\ InitStore
    /\ query \in [op : {"parse_filename_for_show_episode"}, stem : Stems]

\* show, season, episode = parse_filename_for_show_episode(stem)
ParseFilenameForShowEpisode ==
    LET parsed == parse_filename_for_show_episode(query.stem)
    IN /\ query.op = "parse_filename_for_show_episode"
       /\ ret' = [op |-> "parse_filename_for_show_episode", title |-> parsed.title,
                  season |-> parsed.season, episode |-> parsed.episode]
       /\ UNCHANGED <<store, durable, upserts, query>>

NextParse == ParseFilenameForShowEpisode

SpecParse == InitParse /\ [][NextParse]_vars

\* the digits a name ends with
TrailingNumber(name) ==
    LET others == {i \in 1..Len(name) : ~IsDigit(name[i])}
    IN IF others = {} THEN name
       ELSE SubSeq(name, (CHOOSE i \in others : \A j \in others : j <= i) + 1, Len(name))

\* the name ends with a separator followed by a number of one or two digits
EndsWithBareNumber(name) ==
    /\ Len(TrailingNumber(name)) \in 1..2
    /\ Len(name) > Len(TrailingNumber(name))
    /\ name[Len(name) - Len(TrailingNumber(name))] \in SeparatorChars

\* a season marker somewhere in the name: an s followed by a number, a number
\* followed by x and a number, or the word season
HasSeasonMarker(name) ==
    \E i \in 1..Len(name) :
       \/ Literal(name, i, <<"s">>) /\ i < Len(name) /\ IsDigit(name[i + 1])
       \/ IsDigit(name[i]) /\ Literal(name, i + 1, <<"x">>) /\ i + 2 <= Len(name) /\ IsDigit(name[i + 2])
       \/ Literal(name, i, <<"s", "e", "a", "s", "o", "n">>)

MarkerAt(name, i) ==
    /\ i + 5 <= Len(name)
    /\ Literal(name, i, <<"s">>) /\ IsDigit(name[i + 1]) /\ IsDigit(name[i + 2])
    /\ Literal(name, i + 3, <<"e">>) /\ IsDigit(name[i + 4]) /\ IsDigit(name[i + 5])
    /\ i + 6 <= Len(name) => ~IsDigit(name[i + 6])

\* C26: for a stem whose name contains an SxxEyy marker,
\* parse_filename_for_show_episode returns season xx and episode yy as
\* integers and the normalized text before the marker as title; for a stem
\* with no season or episode marker at all (no number in its name) it
\* returns the whole normalized name, season None and episode None.
C26_SeasonEpisodeMarker ==
    ret.op = "parse_filename_for_show_episode" =>
       LET name == CleanName(query.stem)
           markers == {i \in 1..Len(name) : MarkerAt(name, i)}
       IN /\ markers # {} =>
                LET i == Min(markers)
                IN /\ ret.season = {int(SubSeq(name, i + 1, i + 2))}
                   /\ ret.episode = {int(SubSeq(name, i + 4, i + 5))}
                   /\ ret.title = strip(SubSeq(name, 1, i - 1))
          /\ (\A i \in 1..Len(name) : ~IsDigit(name[i])) =>
                /\ ret.title = name
                /\ ret.season = NoInt
                /\ ret.episode = NoInt

\* a combined code: a run of three or four digits, read as season and episode
HasCombinedCode(name) ==
    \E i \in 1..Len(name) : \A k \in 0..2 : i + k <= Len(name) /\ IsDigit(name[i + k])

\* C27: when parse_filename_for_show_episode finds an episode number but no
\* explicit season in the stem, the season it returns is 1.
C27_SeasonDefaultsToOne ==
    (/\ ret.op = "parse_filename_for_show_episode"
     /\ ret.episode # NoInt
     /\ ~HasSeasonMarker(CleanName(query.stem))
     /\ ~HasCombinedCode(CleanName(query.stem))) =>
        ret.season = {1}

\* the number of surface_form_sentences rows of surface form f
LinksOfSurfaceForm(f) ==
    BagCardinality(BagKeep(surface_form_sentences, {row \in BagToSet(surface_form_sentences) : row[1] = f}))

\* C28: in every store reached by ingestion (add_surface_form from scans and
\* card imports), subtitle saves and remove_path, the frequency of each
\* surface form equals the number of its surface_form_sentences rows.
C28_FrequencyCountsLinks ==
    \A f \in DOMAIN surface_forms : surface_forms[f].frequency = LinksOfSurfaceForm(f)

\* the lines of text t, in sentence order, before and after a step
LinesBefore(t) ==
    LET ids == SortedSeq({x \in DOMAIN sentences : sentences[x].text_id = t})
    IN [i \in 1..Len(ids) |-> sentences[ids[i]].content]
LinesAfter(t) ==
    LET ids == SortedSeq({x \in DOMAIN sentences' : sentences'[x].text_id = t})
    IN [i \in 1..Len(ids) |-> sentences'[ids[i]].content]

\* C29: a subtitle save whose lines are the lines the text already had leaves
\* the frequency of every lemma, and of every surface form (identified by its
\* lemma, surface text, reading and part of speech), as it was before the save.
C29_UnchangedSaveKeepsFrequencies ==
    [][(ret'.op = "on_save_changes_clicked" /\ LinesAfter(ret'.text_id) = LinesBefore(ret'.text_id)) =>
          /\ \A d \in DOMAIN dictionary_forms :
                /\ d \in DOMAIN dictionary_forms'
                /\ dictionary_forms'[d].frequency = dictionary_forms[d].frequency
          /\ \A f \in DOMAIN surface_forms :
                \E g \in DOMAIN surface_forms' :
                   /\ surface_forms'[g].dict_form_id = surface_forms[f].dict_form_id
                   /\ surface_forms'[g].surface_form = surface_forms[f].surface_form
                   /\ surface_forms'[g].reading = surface_forms[f].reading
                   /\ surface_forms'[g].pos = surface_forms[f].pos
                   /\ surface_forms'[g].frequency = surface_forms[f].frequency
    ]_vars

-----------------------------------------------------------------------------
(* Deferred against synchronous kanji parsing *)

DeferredPaths == {<<"t", "1">>}
DeferredDecks == {<<"t", "2">>}
DeferredSurfaces == {<<"a">>, <<"k">>}
DeferredTokens == {Token(b, b) : b \in DeferredSurfaces}

\* index_subtitle_file adds its surface forms with parse_kanji=False, the card
\* import with the default parse_kanji=True
NextDeferred ==
    \/ \E path \in DeferredPaths, tk \in DeferredTokens : IndexSubtitleFile(path, <<<<tk>>>>)
    \/ \E deck \in DeferredDecks, tk \in DeferredTokens :
          /\ Cardinality(DOMAIN cards) < MaxCards
          /\ InsertImportedCard(deck, <<tk>>)
    \/ \E d \in DOMAIN dictionary_forms, sf \in DeferredSurfaces, sid \in DOMAIN sentences,
          parse_kanji \in BOOLEAN :
          AddSurfaceForm(d, sf, <<"a">>, <<"a">>, sid, NoInt, parse_kanji)
    \/ ParsePendingKanji

SpecDeferred == Init /\ [][NextDeferred]_vars

\* how often kanji character c occurs in a text
Occurrences(text, c) == Cardinality({i \in 1..Len(text) : text[i] = c})

\* the kanji_linkage rows of kanji k for surface form f in sentence sid
LinkageRows(k, f, sid) ==
    BagCardinality(BagKeep(kanji_linkage, {row \in BagToSet(kanji_linkage) :
                                              row[1] = k /\ row[2] = f /\ row[3] = sid}))

\* what the kanji tables hold for surface form f when every add_surface_form
\* call for it was made with parse_kanji=True: one compound whose frequency is
\* the number of the form's sentence links, and for each kanji of the text an
\* entry with one count and one linkage row per link
SynchronouslyParsed(f) ==
    LET text == surface_forms[f].surface_form
        compounds == {c \in DOMAIN compound_forms :
                         /\ compound_forms[c].surface_form_id = f
                         /\ compound_forms[c].compound_text = text}
    IN /\ Cardinality(compounds) = 1
       /\ \A c \in compounds :
             /\ compound_forms[c].frequency = LinksOfSurfaceForm(f)
             /\ \A i \in 1..Len(text) :
                   IsKanji(text[i]) =>
                      \E k \in DOMAIN kanji_entries :
                         /\ kanji_entries[k].compound_id = c
                         /\ kanji_entries[k].kanji_char = text[i]
                         /\ kanji_entries[k].frequency
                               = LinksOfSurfaceForm(f) * Occurrences(text, text[i])
                         /\ \A sid \in DOMAIN sentences :
                               LinkageRows(k, f, sid)
                                  = CopiesIn(<<f, sid>>, surface_form_sentences)
                                       * Occurrences(text, text[i])

\* C30: whatever add_surface_form calls were made with parse_kanji true or
\* false and wherever parse_pending_kanji ran in between, after a
\* parse_pending_kanji the compound and kanji frequencies and the kanji linkage
\* rows per (surface form, sentence) are those of the run in which every call
\* used parse_kanji=True; in particular the compound frequency of each
\* kanji-bearing form equals the number of its sentence links.
C30_DeferredAgreesWithSynchronous ==
    ret.op = "parse_pending_kanji" =>
       \A f \in DOMAIN surface_forms :
          contains_kanji(surface_forms[f].surface_form) => SynchronouslyParsed(f)

====
